---- MODULE Spec2Model ----
(***************************************************************************)
(* State-machine model of UserProfile (iov-keycontrol/src/userprofile.ts): *)
(* a lockable profile that owns a Keyring, persists itself into a          *)
(* key-value store and signs transactions through its keyring entries.     *)
(* Every async method is split at its await points, so that calls on the   *)
(* same profile and on the same store interleave as the JavaScript event   *)
(* loop lets them.                                                         *)
(***************************************************************************)
EXTENDS Integers, Sequences, FiniteSets, TLC

\* ------------------------------------------------------------------ bounds
MaxProfiles == 2        \* UserProfile instances alive in one process
MaxCalls == 2           \* calls that can be in flight at the same time
MaxIdentities == 1      \* identities per keyring entry
MaxTxs == 2             \* SignedTransaction objects on the heap
MaxSigning == 1         \* signTransaction/appendSignature calls in flight at once
MaxSeedCalls == 2       \* calls of mnemonicToSeed, one after the other
MaxEncodeCalls == 2     \* calls of the bns-codec encoders, one after the other
MaxNonce == 2           \* the nonces of the signatures to encode: 0..MaxNonce

ProfileIds == 1..MaxProfiles
CallIds == 1..MaxCalls
TxIds == 1..MaxTxs

\* --------------------------------------------------------------- constants
storageKeyCreatedAt == "created_at"
storageKeyKeyring == "keyring"
\* the unrelated key of the test "flushed store when creating"
unrelatedKey == "foo"
\* key order of the store's key stream (bytewise order of the keys)
StoreKeyOrder == <<storageKeyCreatedAt, unrelatedKey, storageKeyKeyring>>
StoreKeys == {storageKeyCreatedAt, unrelatedKey, storageKeyKeyring}

\* `this.keyring = undefined`: 0 is the absent reference, a positive number
\* is a reference to the Keyring object on keyringHeap
Undefined == 0
NoProfile == [exists |-> FALSE, createdAt |-> 0, keyring |-> Undefined, locked |-> FALSE]

\* ------------------------------------------------------------------- dates
\* A ReadonlyDate is its time value in milliseconds; InvalidDate is the
\* time value NaN that `new Date(text)` has for a text that is no date.
InvalidDate == -1
GarbageText == [fmt |-> "other", ms |-> 0]

\* Date.prototype.toISOString: the canonical text of a valid date
ToISOString(d) == [fmt |-> "iso8601", ms |-> d]

\* new ReadonlyDate(text): parses the canonical text, NaN otherwise
ParseDate(text) == IF text.fmt = "iso8601" THEN text.ms ELSE InvalidDate

\* ----------------------------------------------------------------- keyring
\* A Keyring is the ordered sequence of its entries; an entry owns a secret
\* and the ordered sequence of its identities (public key, label; label 0
\* is the undefined label).
FormatVersion == 1
EmptyKeyring == << >>
NewEntry(secret) == [secret |-> secret, identities |-> << >>]

SerializeEntry(e) ==
  [secret |-> e.secret,
   identities |-> [i \in 1..Len(e.identities) |->
                     <<e.identities[i].pubkey, e.identities[i].label>>]]

\* Keyring.serialize(): the entries' serializations under a format version
Serialize(kr) ==
  [formatVersion |-> FormatVersion,
   entries |-> [i \in 1..Len(kr) |-> SerializeEntry(kr[i])]]

DeserializeEntry(s) ==
  [secret |-> s.secret,
   identities |-> [i \in 1..Len(s.identities) |->
                     [pubkey |-> s.identities[i][1], label |-> s.identities[i][2]]]]

\* new Keyring(serialization) accepts the current format version only
ValidSerialization(text) == text.formatVersion = FormatVersion

Deserialize(text) == [i \in 1..Len(text.entries) |-> DeserializeEntry(text.entries[i])]

CorruptSerialization == [formatVersion |-> 0, entries |-> << >>]

\* the keyrings the first profile is constructed from: no entry, one, two
InitialKeyrings ==
  {EmptyKeyring, <<NewEntry(1)>>, <<NewEntry(1), NewEntry(2)>>}
\* the creation time of the first profile, and the one of the profile that
\* an earlier run left in the store
InitialCreatedAt == 1
StoredCreatedAt == 2
StoredKeyring == <<NewEntry(3)>>

\* ------------------------------------------------------------------- store
\* The key-value store is the function from its present keys to their
\* values; a key outside the domain reads as not-found.
Put(st, key, value) == (key :> value) @@ st
Del(st, key) == [k \in (DOMAIN st) \ {key} |-> st[k]]
KeysOf(st) == SelectSeq(StoreKeyOrder, LAMBDA k : k \in DOMAIN st)
EmptyStore == [k \in {} |-> GarbageText]

\* the stores a run starts on: empty, or holding an earlier profile (whole
\* and beside an unrelated key, or one of its records only, or with a
\* record that is no date or no keyring serialization)
InitialStores_Whole ==
  (storageKeyCreatedAt :> ToISOString(StoredCreatedAt))
    @@ (storageKeyKeyring :> Serialize(StoredKeyring)) @@ (unrelatedKey :> GarbageText)

InitialStores ==
  LET c == storageKeyCreatedAt :> ToISOString(StoredCreatedAt)
      k == storageKeyKeyring :> Serialize(StoredKeyring)
      f == unrelatedKey :> GarbageText
  IN {EmptyStore, c @@ k @@ f, c, k @@ f,
      (storageKeyCreatedAt :> GarbageText) @@ k,
      c @@ (storageKeyKeyring :> CorruptSerialization)}

\* ------------------------------------------------------------------- state
VARIABLES
  profiles,     \* ProfileIds -> the fields of the UserProfile instance
  keyringHeap,  \* ProfileIds -> the Keyring object the constructor created
  store,        \* the storage the calls work on
  calls,        \* CallIds -> a call of an async method that is in flight
  last,         \* what the call that settled last returned or threw
  signedTxs,    \* TxIds -> a SignedTransaction object returned to a caller
  crashed,      \* the process died; its calls never take another step
  recovery,     \* what loadFrom gave the restarted process
  bip39,        \* the call of Bip39 made last: its argument and what it gave
  encoded       \* the calls of the bns-codec encoders made so far, in order

vars ==
  <<profiles, keyringHeap, store, calls, last, signedTxs, crashed, recovery, bip39, encoded>>

\* errors, named by the error kinds of the specification
ProfileLocked == "ProfileLocked"        \* Error("UserProfile is currently locked")
EntryNotFound == "EntryNotFound"        \* Error("Entry of index n does not exist in keyring")
MissingField == "MissingField"          \* the store's not-found error of db.get
InvalidSerialization == "InvalidSerialization"  \* thrown by new Keyring(text)
TypeError == "TypeError"                \* property access on undefined
RangeError == "RangeError"              \* toISOString of an invalid date
SigningFailure == "SigningFailure"      \* rejection of createTransactionSignature
IdentityNotFound == "IdentityNotFound"  \* the entry does not know the identity
InvalidLength == "InvalidLength"        \* invalid input length
InvalidFormat == "InvalidFormat"        \* invalid mnemonic format
InvalidWordCount == "InvalidWordCount"  \* invalid word count (... got: n)
InvalidChecksum == "InvalidChecksum"    \* invalid mnemonic checksum
NoError == ""

NoEntry == [keyring |-> Undefined, index |-> 0]
NoBytes == [transaction |-> 0, nonce |-> 0]
NoSignatureBytes == [secret |-> 0, pubkey |-> 0, bytes |-> NoBytes, chainId |-> ""]
NoSignature == [publicKey |-> 0, nonce |-> 0, signature |-> NoSignatureBytes]
NoTx == [exists |-> FALSE, transaction |-> 0, primarySignature |-> NoSignature,
         otherSignatures |-> << >>]

\* A call in flight: the method, its position, its arguments and locals.
\* `overlapped` records whether another storeIn ran beside a storeIn.
IdleCall ==
  [op |-> "idle", pc |-> "idle", profile |-> 0,
   keysToClear |-> << >>, createdAt |-> 0, keyringText |-> CorruptSerialization,
   entry |-> NoEntry, identity |-> 0, transaction |-> 0, input |-> 0,
   nonce |-> 0, bytes |-> NoBytes, overlapped |-> FALSE]

\* The outcome of a call: what it returned (result: the id of the profile
\* or of the signed transaction, the public key of the identity; list: the
\* identities) or the error it threw.
Outcome(op, p, err, res, list) ==
  [op |-> op, profile |-> p, error |-> err, result |-> res, list |-> list]
NoOutcome == Outcome("none", 0, NoError, 0, << >>)
Threw(op, p, err) == Outcome(op, p, err, 0, << >>)
Gave(op, p, res) == Outcome(op, p, NoError, res, << >>)

\* what loadFrom gives: the error, or the arguments of the constructor
Loaded(err, createdAt, text) == [error |-> err, createdAt |-> createdAt, keyringText |-> text]
NotLoaded(err) == Loaded(err, 0, CorruptSerialization)
NotRun == NotLoaded("not run")

\* a new call takes the first slot that holds no call
Free(c) == calls[c].pc = "idle" /\ \A d \in CallIds : d < c => calls[d].pc # "idle"
InFlight(c) == calls[c].pc # "idle"
At(c, op, pc) == calls[c].op = op /\ calls[c].pc = pc
Live(p) == profiles[p].exists

\* ------------------------------------------------------------------- Bip39
\* An entropy is a sequence of bytes.  A mnemonic text is a sequence of
\* pieces: a piece is a single space or a longest run of characters that
\* are no spaces.
Space == " "
Repeated(x, len) == [i \in 1..len |-> x]

EntropyLengths == {16, 20, 24, 28, 32}
WordCounts == {12, 15, 18, 21, 24}
WordlistSize == 2048
WordBits == 11

\* the words of the English list that the test vectors show, each with the
\* index the vector gives it
VectorWords ==
  {<<0, "abandon">>, <<3, "about">>, <<4, "above">>, <<8, "absurd">>,
   <<16, "acoustic">>, <<32, "advice">>, <<39, "agent">>, <<60, "always">>,
   <<64, "amount">>, <<102, "art">>, <<128, "avoid">>, <<189, "bless">>,
   <<257, "cage">>, <<514, "doctor">>, <<1019, "legal">>, <<1028, "letter">>,
   <<1533, "sausage">>, <<1790, "thank">>, <<1815, "title">>, <<1919, "useful">>,
   <<1967, "vote">>, <<1983, "wave">>, <<2001, "when">>, <<2009, "will">>,
   <<2015, "winner">>, <<2031, "worth">>, <<2037, "wrong">>, <<2039, "year">>,
   <<2040, "yellow">>, <<2047, "zoo">>}

\* the words the vectors do not show stand in the list under a name spelt
\* from their index, in lowercase letters as every word of the list is
Letter == <<"a", "b", "c", "d", "e", "f", "g", "h", "i", "j">>
OtherWord(i) ==
  "q" \o Letter[(i \div 1000) + 1] \o Letter[((i \div 100) % 10) + 1]
      \o Letter[((i \div 10) % 10) + 1] \o Letter[(i % 10) + 1]

Wordlist ==
  [i \in 0..(WordlistSize - 1) |->
     IF i \in {v[1] : v \in VectorWords} THEN (CHOOSE v \in VectorWords : v[1] = i)[2]
     ELSE OtherWord(i)]

\* the index of each word of the list
WordIndexes ==
  LET pairs == {<<Wordlist[i], i>> : i \in DOMAIN Wordlist}
  IN [w \in {pair[1] : pair \in pairs} |-> (CHOOSE pair \in pairs : pair[1] = w)[2]]

InWordlist(w) == w \in DOMAIN WordIndexes
IndexOf(w) == WordIndexes[w]

\* pieces that hold a character outside a-z: an uppercase letter, a digit
\* (test lines 97-119); and a lowercase piece that is no word of the list
OutsideAToZ == {"Abandon", "route66"}
UnlistedWord == "zzz"

\* the k-th bit of an n of the given width, the highest bit first
BitOf(n, width, k) == (n \div (2 ^ (width - k))) % 2

RECURSIVE ValueOf(_)
ValueOf(bits) ==
  IF Len(bits) = 0 THEN 0
  ELSE 2 * ValueOf(SubSeq(bits, 1, Len(bits) - 1)) + bits[Len(bits)]

RECURSIVE BitsOfAll(_, _)
BitsOfAll(numbers, width) ==
  IF Len(numbers) = 0 THEN << >>
  ELSE [k \in 1..width |-> BitOf(numbers[1], width, k)] \o BitsOfAll(Tail(numbers), width)

\* the first byte of the SHA-256 hash of the entropies that are one byte
\* repeated: <<length, byte, first byte of the hash>>
Sha256Heads ==
  {<<0, 0, 227>>, <<1, 0, 110>>, <<1, 127, 98>>, <<1, 128, 118>>,
   <<1, 255, 168>>, <<15, 0, 83>>, <<15, 127, 30>>, <<15, 128, 94>>,
   <<15, 255, 179>>, <<16, 0, 55>>, <<16, 127, 135>>, <<16, 128, 78>>,
   <<16, 255, 90>>, <<17, 0, 10>>, <<17, 127, 73>>, <<17, 128, 215>>,
   <<17, 255, 232>>, <<20, 0, 222>>, <<20, 127, 27>>, <<20, 128, 94>>,
   <<20, 255, 154>>, <<23, 0, 1>>, <<23, 127, 161>>, <<23, 128, 255>>,
   <<23, 255, 190>>, <<24, 0, 157>>, <<24, 127, 102>>, <<24, 128, 240>>,
   <<24, 255, 68>>, <<25, 0, 97>>, <<25, 127, 43>>, <<25, 128, 251>>,
   <<25, 255, 188>>, <<28, 0, 58>>, <<28, 127, 52>>, <<28, 128, 164>>,
   <<28, 255, 50>>, <<31, 0, 253>>, <<31, 127, 43>>, <<31, 128, 28>>,
   <<31, 255, 118>>, <<32, 0, 102>>, <<32, 127, 23>>, <<32, 128, 189>>,
   <<32, 255, 175>>, <<33, 0, 127>>, <<33, 127, 108>>, <<33, 128, 71>>,
   <<33, 255, 255>>}
\* and of the entropies of 16 bytes that differ from one of these in one
\* bit: <<byte, <<the first byte of the hash with bit 1, 2, .. 128 flipped>> >>
FlippedSha256Heads ==
  {<<0, <<60, 2, 19, 230, 133, 107, 177, 76, 145, 37, 223, 11, 133, 198, 177, 6,
          12, 46, 99, 53, 202, 56, 79, 3, 98, 11, 53, 194, 252, 199, 92, 204,
          24, 73, 33, 160, 198, 108, 153, 195, 99, 83, 183, 186, 167, 230, 174, 212,
          138, 213, 147, 163, 243, 45, 177, 163, 164, 212, 131, 96, 132, 134, 19, 120,
          215, 72, 31, 239, 147, 247, 197, 157, 223, 152, 52, 160, 75, 181, 143, 161,
          124, 201, 6, 17, 148, 0, 197, 208, 238, 148, 209, 46, 99, 86, 141, 59,
          22, 44, 110, 8, 150, 209, 110, 116, 129, 67, 1, 104, 81, 207, 193, 245,
          167, 180, 217, 228, 240, 229, 142, 152, 138, 8, 167, 1, 157, 101, 105, 124>> >>,
   <<127, <<113, 12, 197, 243, 201, 180, 113, 147, 181, 193, 122, 249, 224, 254, 139, 115,
            113, 218, 38, 127, 197, 139, 148, 130, 37, 86, 149, 57, 157, 148, 138, 72,
            104, 173, 110, 169, 140, 239, 77, 66, 43, 101, 114, 191, 147, 187, 93, 179,
            161, 89, 85, 31, 234, 246, 117, 210, 3, 86, 108, 150, 98, 237, 48, 100,
            233, 24, 244, 61, 148, 62, 175, 6, 176, 123, 39, 213, 240, 180, 110, 189,
            19, 10, 44, 208, 79, 234, 197, 67, 73, 230, 198, 137, 112, 142, 252, 154,
            43, 158, 220, 76, 123, 0, 210, 39, 220, 150, 42, 188, 127, 205, 91, 46,
            248, 69, 20, 32, 9, 237, 252, 70, 188, 219, 148, 205, 134, 112, 115, 239>> >>,
   <<128, <<159, 54, 104, 34, 31, 81, 188, 209, 156, 18, 142, 34, 106, 190, 129, 140,
            180, 148, 86, 78, 73, 52, 54, 154, 43, 159, 252, 201, 225, 90, 251, 26,
            129, 235, 252, 227, 88, 253, 251, 230, 152, 224, 145, 16, 77, 167, 200, 67,
            79, 3, 66, 193, 13, 254, 243, 201, 127, 79, 243, 111, 253, 230, 251, 228,
            255, 49, 14, 235, 250, 136, 28, 62, 137, 82, 87, 37, 247, 140, 37, 175,
            26, 88, 251, 247, 126, 251, 68, 30, 203, 136, 198, 12, 197, 13, 149, 177,
            37, 44, 58, 180, 215, 160, 181, 64, 144, 36, 248, 163, 223, 94, 58, 193,
            11, 121, 74, 160, 179, 25, 115, 219, 44, 67, 88, 163, 246, 60, 52, 151>> >>,
   <<255, <<99, 139, 69, 237, 179, 184, 209, 215, 79, 187, 244, 172, 147, 95, 109, 152,
            101, 179, 110, 249, 249, 224, 231, 24, 81, 52, 69, 134, 20, 252, 109, 220,
            255, 48, 155, 254, 205, 116, 20, 209, 27, 132, 66, 5, 243, 101, 172, 113,
            53, 208, 108, 130, 238, 208, 168, 197, 230, 120, 149, 105, 94, 216, 89, 179,
            195, 20, 76, 72, 16, 253, 23, 11, 150, 113, 122, 88, 99, 46, 247, 253,
            220, 9, 71, 134, 71, 47, 76, 250, 214, 5, 123, 16, 192, 23, 153, 3,
            205, 219, 168, 59, 66, 188, 32, 127, 75, 55, 245, 175, 93, 221, 183, 36,
            163, 148, 110, 254, 53, 193, 40, 177, 130, 162, 31, 225, 233, 147, 34, 9>> >>}

\* the byte and the bit in which an entropy differs from a repeated byte
FlippedAt(e) ==
  IF Len(e) # 16 THEN {}
  ELSE LET b == IF e[1] = e[2] THEN e[1] ELSE e[3]
           at == {i \in 1..16 : e[i] # b}
       IN {<<b, 8 * (i - 1) + j>> : i \in at, j \in 1..8} \cap
          {<<c, k>> \in {b} \X (1..128) :
             /\ Cardinality(at) = 1
             /\ \E row \in FlippedSha256Heads : row[1] = c
             /\ \A i \in at :
                  {j \in 1..8 : BitOf(e[i], 8, j) # BitOf(b, 8, j)} = {k - 8 * (i - 1)}}

Hashed(e) ==
  \/ \E row \in Sha256Heads : row[1] = Len(e) /\ e = Repeated(row[2], Len(e))
  \/ FlippedAt(e) # {}
Sha256FirstByte(e) ==
  IF \E row \in Sha256Heads : row[1] = Len(e) /\ e = Repeated(row[2], Len(e))
  THEN (CHOOSE row \in Sha256Heads : row[1] = Len(e) /\ e = Repeated(row[2], Len(e)))[3]
  ELSE LET f == CHOOSE f \in FlippedAt(e) : TRUE
       IN (CHOOSE row \in FlippedSha256Heads : row[1] = f[1])[2][f[2]]

\* checksum length in bits = entropy length in bits / 32; the checksum is
\* the first bits of the hash
ChecksumLength(e) == (8 * Len(e)) \div 32
Checksum(e) == SubSeq(BitsOfAll(<<Sha256FirstByte(e)>>, 8), 1, ChecksumLength(e))

\* the groups of 11 bits, each the index of a word
RECURSIVE Groups(_)
Groups(bits) ==
  IF Len(bits) < WordBits THEN << >>
  ELSE <<ValueOf(SubSeq(bits, 1, WordBits))>> \o Groups(SubSeq(bits, WordBits + 1, Len(bits)))

RECURSIVE WordsAt(_)
WordsAt(indexes) ==
  IF Len(indexes) = 0 THEN << >>
  ELSE <<Wordlist[indexes[1]]>> \o WordsAt(Tail(indexes))

RECURSIVE IndexesOf(_)
IndexesOf(words) ==
  IF Len(words) = 0 THEN << >>
  ELSE <<IndexOf(words[1])>> \o IndexesOf(Tail(words))

\* the words joined by single spaces
RECURSIVE Join(_)
Join(words) ==
  IF Len(words) < 2 THEN words
  ELSE <<words[1], Space>> \o Join(Tail(words))

\* the text split strictly on single spaces
SplitOnSpaces(text) == SelectSeq(text, LAMBDA piece : piece # Space)

\* what a call of Bip39 gives: the entropy and the mnemonic text, of which
\* one is the argument and one the result, or the error, with the word count
\* that the error text of InvalidWordCount names
Bip39Call(op, entropy, mnemonic, err, count) ==
  [op |-> op, entropy |-> entropy, mnemonic |-> mnemonic, error |-> err, count |-> count]
NoBip39Call == Bip39Call("none", << >>, << >>, NoError, 0)

\* Bip39.encode(entropy)
AcceptedLengthFrom16To32(len) == len \in 16..32

AcceptedLength(len) == len \in EntropyLengths

Encode(e) ==
  IF ~AcceptedLength(Len(e)) THEN Bip39Call("encode", e, << >>, InvalidLength, 0)
  ELSE Bip39Call("encode", e, Join(WordsAt(Groups(BitsOfAll(e, 8) \o Checksum(e)))),
                 NoError, 0)

\* new EnglishMnemonic(text): the three checks, in their order
WellFormatted(text) ==
  /\ Len(text) > 0
  /\ text[1] # Space /\ text[Len(text)] # Space
  /\ \A i \in 1..(Len(text) - 1) : ~(text[i] = Space /\ text[i + 1] = Space)
  /\ \A i \in 1..Len(text) : text[i] \notin OutsideAToZ

\* the entropy bits are the first 32 of every 33 bits
EntropyBitsOfFromSecondBit(words) ==
  SubSeq(BitsOfAll(IndexesOf(words), WordBits), 2, (WordBits * Len(words) * 32) \div 33 + 1)

EntropyBitsOf(words) ==
  SubSeq(BitsOfAll(IndexesOf(words), WordBits), 1, (WordBits * Len(words) * 32) \div 33)

RECURSIVE Bytes(_)
Bytes(bits) ==
  IF Len(bits) < 8 THEN << >>
  ELSE <<ValueOf(SubSeq(bits, 1, 8))>> \o Bytes(SubSeq(bits, 9, Len(bits)))

EntropyOf(words) == Bytes(EntropyBitsOf(words))

ChecksumVerifiesButLastBit(words) ==
  LET bits == BitsOfAll(IndexesOf(words), WordBits)
      entropyBits == (Len(bits) * 32) \div 33
  IN SubSeq(Checksum(Bytes(SubSeq(bits, 1, entropyBits))), 1, Len(bits) - entropyBits - 1)
       = SubSeq(bits, entropyBits + 1, Len(bits) - 1)

ChecksumVerifies(words) ==
  LET bits == BitsOfAll(IndexesOf(words), WordBits)
      entropyBits == (Len(bits) * 32) \div 33
  IN Checksum(Bytes(SubSeq(bits, 1, entropyBits))) = SubSeq(bits, entropyBits + 1, Len(bits))

ObservedCount(text) == Len(SplitOnSpaces(text))

\* the error of the second check, which names the count
WordCountErrorNamingPieces(text) == [error |-> InvalidWordCount, count |-> Len(text)]

WordCountError(text) == [error |-> InvalidWordCount, count |-> ObservedCount(text)]

ValidateCountFirst(text) ==
  IF ObservedCount(text) \notin WordCounts
  THEN WordCountError(text)
  ELSE IF ~WellFormatted(text)
  THEN [error |-> InvalidFormat, count |-> 0]
  ELSE IF \E i \in 1..Len(SplitOnSpaces(text)) : ~InWordlist(SplitOnSpaces(text)[i])
  THEN [error |-> InvalidChecksum, count |-> 0]
  ELSE IF ~ChecksumVerifies(SplitOnSpaces(text))
  THEN [error |-> InvalidChecksum, count |-> 0]
  ELSE [error |-> NoError, count |-> 0]

Validate(text) ==
  IF ~WellFormatted(text)
  THEN [error |-> InvalidFormat, count |-> 0]
  ELSE IF ObservedCount(text) \notin WordCounts
  THEN WordCountError(text)
  ELSE IF \E i \in 1..Len(SplitOnSpaces(text)) : ~InWordlist(SplitOnSpaces(text)[i])
  THEN [error |-> InvalidChecksum, count |-> 0]
  ELSE IF ~ChecksumVerifies(SplitOnSpaces(text))
  THEN [error |-> InvalidChecksum, count |-> 0]
  ELSE [error |-> NoError, count |-> 0]

\* Bip39.decode(new EnglishMnemonic(text))
Decode(text) ==
  IF Validate(text).error # NoError
  THEN Bip39Call("decode", << >>, text, Validate(text).error, Validate(text).count)
  ELSE Bip39Call("decode", EntropyOf(SplitOnSpaces(text)), text, NoError, 0)

\* ---------------------------------------------------- Bip39.mnemonicToSeed
\* A text is the sequence of its code points.  The texts of the tests: "",
\* "foo", "foo bar", "foo!", "foo" with U+2713, and the first vector
\* "abandon ... about"; the passphrases "", "passwd" and "TREZOR", or none.
SeedTexts ==
  {<< >>, <<102, 111, 111>>, <<102, 111, 111, 32, 98, 97, 114>>, <<102, 111, 111, 33>>,
   <<102, 111, 111, 10003>>,
   [i \in 1..93 |-> IF i > 88 THEN <<97, 98, 111, 117, 116>>[i - 88]
                    ELSE <<97, 98, 97, 110, 100, 111, 110, 32>>[((i - 1) % 8) + 1]]}

NoPassphrase == [given |-> FALSE, text |-> << >>]
Passphrase(text) == [given |-> TRUE, text |-> text]
PassphraseArgs ==
  {NoPassphrase, Passphrase(<< >>), Passphrase(<<112, 97, 115, 115, 119, 100>>),
   Passphrase(<<84, 82, 69, 90, 79, 82>>)}

\* mnemonicToSeed(mnemonic, password = ""): the default of the parameter
PassphraseOrTrezor(passphrase) ==
  IF passphrase.given THEN passphrase.text ELSE <<84, 82, 69, 90, 79, 82>>

PassphraseOrDefault(passphrase) ==
  IF passphrase.given THEN passphrase.text ELSE << >>

\* the canonical byte encoding of a text: UTF-8 (the normalisation leaves
\* the characters of these texts as they are)
RECURSIVE Utf8(_)
Utf8(text) ==
  IF Len(text) = 0 THEN << >>
  ELSE (IF text[1] < 128 THEN <<text[1]>>
        ELSE IF text[1] < 2048 THEN <<192 + (text[1] \div 64), 128 + (text[1] % 64)>>
        ELSE <<224 + (text[1] \div 4096), 128 + ((text[1] \div 64) % 64),
               128 + (text[1] % 64)>>)
       \o Utf8(Tail(text))

\* PBKDF2 with HMAC-SHA-512, 2048 iterations, 64 bytes:
\* <<password, salt, derived key>>
Pbkdf2HmacSha512 ==
  {<< << >>,
      <<109, 110, 101, 109, 111, 110, 105, 99>>,
      <<78, 216, 212, 177, 118, 152, 221, 234, 161, 241, 85, 159, 21, 47, 135, 181, 212, 114, 247, 37,
        202, 134, 211, 65, 189, 2, 118, 241, 182, 17, 151, 226, 29, 213, 163, 145, 249, 245, 237, 115,
        64, 255, 77, 69, 19, 170, 185, 204, 228, 79, 148, 151, 165, 231, 237, 133, 253, 129, 136, 118,
        182, 235, 64, 46>> >>,
   << << >>,
      <<109, 110, 101, 109, 111, 110, 105, 99, 112, 97, 115, 115, 119, 100>>,
      <<204, 195, 132, 139, 108, 187, 198, 117, 176, 229, 237, 120, 202, 115, 33, 84, 79, 122, 29, 35,
        194, 140, 13, 119, 52, 238, 103, 222, 169, 191, 167, 112, 100, 194, 178, 113, 85, 46, 124, 19,
        118, 218, 178, 41, 11, 182, 62, 56, 161, 82, 111, 45, 32, 239, 187, 245, 153, 54, 122, 255,
        45, 93, 151, 227>> >>,
   << << >>,
      <<109, 110, 101, 109, 111, 110, 105, 99, 84, 82, 69, 90, 79, 82>>,
      <<180, 60, 103, 241, 179, 84, 168, 193, 126, 115, 216, 180, 131, 243, 73, 243, 163, 84, 154, 78,
        231, 48, 239, 8, 251, 189, 87, 125, 77, 236, 240, 100, 56, 179, 6, 255, 17, 150, 9, 106,
        3, 247, 126, 46, 254, 112, 48, 32, 120, 132, 26, 59, 16, 14, 242, 120, 5, 177, 114, 141,
        82, 167, 180, 233>> >>,
   << <<102, 111, 111>>,
      <<109, 110, 101, 109, 111, 110, 105, 99>>,
      <<93, 18, 193, 228, 60, 101, 132, 106, 232, 159, 113, 46, 20, 98, 151, 202, 51, 122, 68, 155,
        119, 90, 210, 82, 20, 248, 35, 184, 22, 117, 204, 19, 52, 229, 201, 164, 95, 195, 24, 160,
        71, 80, 27, 88, 96, 62, 170, 4, 8, 230, 243, 188, 45, 194, 2, 203, 26, 252, 86, 142,
        161, 185, 9, 149>> >>,
   << <<102, 111, 111>>,
      <<109, 110, 101, 109, 111, 110, 105, 99, 112, 97, 115, 115, 119, 100>>,
      <<129, 82, 31, 103, 33, 254, 148, 229, 138, 56, 153, 158, 2, 239, 52, 94, 202, 38, 158, 89,
        238, 183, 180, 116, 86, 196, 58, 141, 254, 208, 82, 184, 195, 252, 244, 244, 3, 180, 62, 62,
        213, 173, 211, 208, 18, 132, 125, 136, 3, 166, 202, 55, 138, 231, 146, 179, 80, 71, 1, 253,
        64, 239, 61, 152>> >>,
   << <<102, 111, 111>>,
      <<109, 110, 101, 109, 111, 110, 105, 99, 84, 82, 69, 90, 79, 82>>,
      <<12, 29, 127, 100, 31, 253, 242, 142, 160, 138, 184, 74, 170, 151, 244, 74, 209, 71, 86, 4,
        73, 34, 112, 14, 65, 192, 150, 164, 150, 58, 253, 21, 56, 18, 46, 218, 171, 40, 33, 123,
        53, 52, 198, 109, 84, 204, 212, 88, 133, 150, 76, 193, 59, 198, 64, 26, 245, 123, 120, 135,
        106, 138, 87, 180>> >>,
   << <<102, 111, 111, 32, 98, 97, 114>>,
      <<109, 110, 101, 109, 111, 110, 105, 99>>,
      <<169, 195, 87, 25, 199, 201, 209, 36, 40, 253, 130, 227, 94, 11, 156, 14, 6, 171, 75, 27,
        143, 148, 197, 56, 145, 231, 219, 106, 248, 132, 110, 50, 245, 191, 204, 51, 195, 22, 14, 158,
        118, 210, 200, 59, 168, 170, 126, 63, 68, 251, 125, 218, 195, 152, 202, 10, 35, 3, 146, 109,
        163, 128, 1, 142>> >>,
   << <<102, 111, 111, 32, 98, 97, 114>>,
      <<109, 110, 101, 109, 111, 110, 105, 99, 112, 97, 115, 115, 119, 100>>,
      <<78, 9, 192, 178, 225, 85, 128, 155, 109, 120, 2, 140, 93, 194, 113, 131, 140, 185, 228, 112,
        227, 129, 92, 70, 10, 72, 22, 197, 85, 137, 161, 226, 58, 119, 189, 200, 178, 117, 148, 138,
        62, 29, 236, 0, 135, 71, 88, 204, 65, 48, 106, 186, 24, 20, 150, 86, 205, 101, 95, 132,
        65, 187, 111, 23>> >>,
   << <<102, 111, 111, 32, 98, 97, 114>>,
      <<109, 110, 101, 109, 111, 110, 105, 99, 84, 82, 69, 90, 79, 82>>,
      <<127, 215, 86, 161, 186, 185, 87, 160, 189, 179, 204, 88, 148, 60, 240, 190, 209, 1, 196, 201,
        36, 150, 112, 142, 31, 180, 157, 199, 193, 253, 68, 72, 206, 185, 175, 169, 230, 24, 185, 179,
        173, 34, 125, 131, 77, 115, 130, 82, 191, 230, 18, 63, 149, 221, 197, 201, 141, 123, 23, 70,
        127, 110, 90, 100>> >>,
   << <<102, 111, 111, 33>>,
      <<109, 110, 101, 109, 111, 110, 105, 99>>,
      <<106, 117, 159, 182, 150, 252, 175, 225, 131, 57, 117, 11, 130, 53, 11, 4, 140, 32, 47, 56,
        107, 254, 225, 195, 55, 24, 146, 155, 25, 123, 64, 125, 205, 227, 251, 67, 145, 215, 35, 87,
        136, 128, 255, 29, 226, 235, 140, 105, 72, 233, 55, 7, 197, 36, 55, 68, 31, 18, 69, 153,
        173, 253, 254, 2>> >>,
   << <<102, 111, 111, 33>>,
      <<109, 110, 101, 109, 111, 110, 105, 99, 112, 97, 115, 115, 119, 100>>,
      <<145, 173, 210, 201, 14, 233, 158, 10, 189, 195, 135, 82, 39, 43, 47, 16, 235, 156, 245, 130,
        246, 82, 205, 0, 50, 19, 219, 56, 76, 70, 136, 59, 59, 228, 194, 47, 230, 97, 2, 101,
        229, 87, 28, 223, 14, 190, 237, 72, 98, 90, 86, 12, 200, 1, 191, 113, 144, 250, 139, 217,
        38, 236, 146, 236>> >>,
   << <<102, 111, 111, 33>>,
      <<109, 110, 101, 109, 111, 110, 105, 99, 84, 82, 69, 90, 79, 82>>,
      <<222, 138, 62, 1, 164, 122, 100, 24, 223, 245, 136, 71, 225, 244, 115, 175, 152, 116, 25, 31,
        62, 48, 106, 19, 229, 103, 154, 178, 111, 26, 82, 79, 1, 225, 121, 42, 42, 227, 70, 80,
        110, 131, 254, 105, 62, 240, 140, 80, 131, 190, 77, 247, 223, 90, 143, 232, 45, 216, 107, 100,
        132, 19, 235, 12>> >>,
   << <<102, 111, 111, 226, 156, 147>>,
      <<109, 110, 101, 109, 111, 110, 105, 99>>,
      <<37, 99, 113, 130, 150, 215, 189, 31, 152, 122, 232, 201, 248, 92, 148, 211, 8, 44, 254, 34,
        89, 160, 80, 92, 20, 168, 4, 203, 4, 206, 52, 207, 23, 7, 119, 217, 61, 249, 97, 147,
        106, 113, 116, 124, 121, 126, 227, 132, 28, 215, 3, 69, 244, 94, 209, 241, 145, 223, 42, 139,
        204, 52, 231, 69>> >>,
   << <<102, 111, 111, 226, 156, 147>>,
      <<109, 110, 101, 109, 111, 110, 105, 99, 112, 97, 115, 115, 119, 100>>,
      <<216, 102, 157, 133, 186, 156, 153, 61, 149, 247, 202, 137, 130, 126, 113, 216, 107, 61, 196, 86,
        37, 97, 120, 182, 245, 199, 42, 122, 119, 197, 20, 77, 221, 159, 75, 93, 160, 207, 200, 169,
        198, 7, 230, 105, 194, 218, 103, 229, 206, 119, 26, 151, 184, 211, 201, 170, 182, 198, 229, 209,
        212, 74, 180, 4>> >>,
   << <<102, 111, 111, 226, 156, 147>>,
      <<109, 110, 101, 109, 111, 110, 105, 99, 84, 82, 69, 90, 79, 82>>,
      <<165, 152, 80, 224, 45, 185, 7, 196, 244, 179, 67, 47, 67, 61, 226, 154, 161, 186, 53, 80,
        222, 209, 219, 65, 6, 119, 210, 214, 75, 188, 37, 66, 154, 6, 218, 189, 213, 7, 186, 44,
        112, 108, 31, 248, 125, 118, 30, 181, 110, 208, 41, 96, 120, 29, 44, 178, 39, 198, 21, 119,
        69, 252, 53, 55>> >>,
   << <<97, 98, 97, 110, 100, 111, 110, 32, 97, 98, 97, 110, 100, 111, 110, 32, 97, 98, 97, 110,
        100, 111, 110, 32, 97, 98, 97, 110, 100, 111, 110, 32, 97, 98, 97, 110, 100, 111, 110, 32,
        97, 98, 97, 110, 100, 111, 110, 32, 97, 98, 97, 110, 100, 111, 110, 32, 97, 98, 97, 110,
        100, 111, 110, 32, 97, 98, 97, 110, 100, 111, 110, 32, 97, 98, 97, 110, 100, 111, 110, 32,
        97, 98, 97, 110, 100, 111, 110, 32, 97, 98, 111, 117, 116>>,
      <<109, 110, 101, 109, 111, 110, 105, 99>>,
      <<94, 176, 11, 189, 220, 240, 105, 8, 72, 137, 168, 171, 145, 85, 86, 129, 101, 245, 196, 83,
        204, 184, 94, 112, 129, 26, 174, 214, 246, 218, 95, 193, 154, 90, 196, 11, 56, 156, 211, 112,
        208, 134, 32, 109, 236, 138, 166, 196, 61, 174, 166, 105, 15, 32, 173, 61, 141, 72, 178, 210,
        206, 158, 56, 228>> >>,
   << <<97, 98, 97, 110, 100, 111, 110, 32, 97, 98, 97, 110, 100, 111, 110, 32, 97, 98, 97, 110,
        100, 111, 110, 32, 97, 98, 97, 110, 100, 111, 110, 32, 97, 98, 97, 110, 100, 111, 110, 32,
        97, 98, 97, 110, 100, 111, 110, 32, 97, 98, 97, 110, 100, 111, 110, 32, 97, 98, 97, 110,
        100, 111, 110, 32, 97, 98, 97, 110, 100, 111, 110, 32, 97, 98, 97, 110, 100, 111, 110, 32,
        97, 98, 97, 110, 100, 111, 110, 32, 97, 98, 111, 117, 116>>,
      <<109, 110, 101, 109, 111, 110, 105, 99, 112, 97, 115, 115, 119, 100>>,
      <<234, 42, 171, 252, 56, 8, 220, 43, 198, 144, 246, 134, 117, 104, 72, 139, 113, 159, 227, 5,
        204, 82, 50, 81, 232, 174, 44, 167, 200, 132, 16, 80, 51, 232, 19, 159, 238, 60, 227, 56,
        164, 96, 235, 199, 223, 176, 19, 152, 180, 49, 48, 164, 43, 222, 140, 205, 24, 215, 31, 69,
        79, 251, 10, 73>> >>,
   << <<97, 98, 97, 110, 100, 111, 110, 32, 97, 98, 97, 110, 100, 111, 110, 32, 97, 98, 97, 110,
        100, 111, 110, 32, 97, 98, 97, 110, 100, 111, 110, 32, 97, 98, 97, 110, 100, 111, 110, 32,
        97, 98, 97, 110, 100, 111, 110, 32, 97, 98, 97, 110, 100, 111, 110, 32, 97, 98, 97, 110,
        100, 111, 110, 32, 97, 98, 97, 110, 100, 111, 110, 32, 97, 98, 97, 110, 100, 111, 110, 32,
        97, 98, 97, 110, 100, 111, 110, 32, 97, 98, 111, 117, 116>>,
      <<109, 110, 101, 109, 111, 110, 105, 99, 84, 82, 69, 90, 79, 82>>,
      <<197, 82, 87, 195, 96, 192, 124, 114, 2, 154, 235, 193, 181, 60, 5, 237, 3, 98, 173, 163,
        142, 173, 62, 62, 158, 250, 55, 8, 229, 52, 149, 83, 31, 9, 166, 152, 117, 153, 209, 130,
        100, 193, 225, 201, 47, 44, 241, 65, 99, 12, 122, 60, 74, 183, 200, 27, 47, 0, 22, 152,
        231, 70, 59, 4>> >>}

\* the salt is "mnemonic" followed by the passphrase
MnemonicToSeed(text, passphrase) ==
  LET password == Utf8(text)
      salt == Utf8(<<109, 110, 101, 109, 111, 110, 105, 99>> \o PassphraseOrDefault(passphrase))
  IN [text |-> text, passphrase |-> passphrase, error |-> NoError,
      seed |-> (CHOOSE row \in Pbkdf2HmacSha512 : row[1] = password /\ row[2] = salt)[3]]

\* ------------------------------------------------------ bns-codec, types.ts
\* Algorithm of @iov/types: the algorithm the encoders know, and two others
ED25519 == "ed25519"
Algorithms == {ED25519, "secp256k1", "sr25519"}

\* Error("unsupported algorithm: " + algo)
UnsupportedAlgorithm == "unsupported algorithm"

\* what an encoder gives: the value it returns, or the error it throws and
\* no value
NoEncoding == [thrown |-> TRUE]
Returned(value) == [error |-> NoError, algo |-> "", value |-> value]
Unsupported(algo) == [error |-> UnsupportedAlgorithm, algo |-> algo, value |-> NoEncoding]

EncodePubKeyOfAnyAlgorithm(publicKey) == Returned([ed25519 |-> publicKey.data])

\* line 20-27: encodePubKey
EncodePubKey(publicKey) ==
  IF publicKey.algo = ED25519
  THEN Returned([ed25519 |-> publicKey.data])
  ELSE Unsupported(publicKey.algo)

\* line 30-37: encodeSignature
EncodeSignature(algo, sigs) ==
  IF algo = ED25519
  THEN Returned([ed25519 |-> sigs])
  ELSE Unsupported(algo)

\* codec.sigs.StdSignature.create(properties): the message with the
\* properties it is given
StdSignatureCreate(properties) ==
  [sequence |-> properties.sequence, pubKey |-> properties.pubKey,
   signature |-> properties.signature]

\* line 13-18: encodeFullSig; the properties are evaluated in the order
\* they are written, and the first throw ends the call
EncodeFullSig(sig) ==
  LET pubKey == EncodePubKey(sig.publicKey)
      signature == EncodeSignature(sig.publicKey.algo, sig.signature)
  IN IF pubKey.error # NoError THEN pubKey
     ELSE IF signature.error # NoError THEN signature
     ELSE Returned(StdSignatureCreate([sequence |-> sig.nonce,
                                       pubKey |-> pubKey.value,
                                       signature |-> signature.value]))

\* ------------------------------------------------------------- constructor
\* new UserProfile(createdAt, keyringSerialization): line 38-43; the lock
\* stream carries the producer's default value false
ConstructLocked(createdAt, kid) ==
  [exists |-> TRUE, createdAt |-> createdAt, keyring |-> kid, locked |-> TRUE]

Construct(createdAt, kid) ==
  [exists |-> TRUE, createdAt |-> createdAt, keyring |-> kid, locked |-> FALSE]

\* a SignedTransaction that another party signed and handed over
ReceivedSignature(key, nonce) ==
  [publicKey |-> key, nonce |-> nonce,
   signature |-> [secret |-> key, pubkey |-> key,
                  bytes |-> [transaction |-> 2, nonce |-> nonce], chainId |-> "chain!"]]
ReceivedTx ==
  [exists |-> TRUE, transaction |-> 2, primarySignature |-> ReceivedSignature(7, 1),
   otherSignatures |-> <<ReceivedSignature(8, 2), ReceivedSignature(9, 1)>>]

InitWith(keyrings, stores, received) ==
  /\ \E kr \in keyrings :
       /\ profiles = [p \in ProfileIds |->
                        IF p = 1 THEN Construct(InitialCreatedAt, 1) ELSE NoProfile]
       /\ keyringHeap = [p \in ProfileIds |->
                        IF p = 1 THEN Deserialize(Serialize(kr)) ELSE EmptyKeyring]
  /\ store \in stores
  /\ calls = [c \in CallIds |-> IdleCall]
  /\ last = NoOutcome
  /\ \E r \in received : signedTxs = [t \in TxIds |-> IF t = 1 THEN r ELSE NoTx]
  /\ crashed = FALSE
  /\ recovery = NotRun
  /\ encoded = << >>

\* one profile over a keyring of one entry; the store is empty or holds an
\* earlier profile beside an unrelated key
Init ==
  /\ InitWith({<<NewEntry(1)>>}, {EmptyStore, InitialStores_Whole}, {NoTx})
  /\ bip39 = NoBip39Call

\* ------------------------------------------------------------------ lock()
\* line 62-63: the keyring reference is dropped and the producer's
\* update(true) makes true the value the lock stream carries
LockedProfileKeepingKeyring(prof) == [prof EXCEPT !.locked = TRUE]

LockedProfileToggling(prof) == [prof EXCEPT !.keyring = Undefined, !.locked = ~@]

LockedProfileWithoutUpdate(prof) == [prof EXCEPT !.keyring = Undefined]

LockedProfile(prof) == [prof EXCEPT !.keyring = Undefined, !.locked = TRUE]

Lock(p) ==
  /\ ~crashed /\ Live(p)
  /\ profiles' = [profiles EXCEPT ![p] = LockedProfile(@)]
  /\ UNCHANGED <<keyringHeap, store, calls, last, signedTxs, crashed, recovery, bip39, encoded>>

\* --------------------------------------------------------------- storeIn()
StoreInFlight(c) == calls[c].op = "storeIn" /\ InFlight(c)

\* line 47-49: the lock check of storeIn
StoreInNoLockCheck(p) == TRUE

StoreInLockCheck(p) == profiles[p].keyring # Undefined

StoreInStartWithoutClear(c, p) ==
  /\ ~crashed /\ Live(p) /\ Free(c)
  /\ IF ~StoreInLockCheck(p)
     THEN /\ last' = Threw("storeIn", p, ProfileLocked)
          /\ calls' = calls
     ELSE /\ last' = last
          /\ LET others == {d \in CallIds : StoreInFlight(d)}
             IN calls' = [d \in CallIds |->
                  IF d = c THEN [IdleCall EXCEPT !.op = "storeIn", !.pc = "put_created_at",
                                                 !.profile = p,
                                                 !.createdAt = profiles[p].createdAt,
                                                 !.overlapped = others # {}]
                  ELSE IF d \in others THEN [calls[d] EXCEPT !.overlapped = TRUE]
                  ELSE calls[d]]
  /\ UNCHANGED <<profiles, keyringHeap, store, signedTxs, crashed, recovery, bip39, encoded>>

StoreInStartClearingFirst(c, p) ==
  /\ ~crashed /\ Live(p) /\ Free(c)
  /\ IF ~StoreInLockCheck(p)
     THEN /\ last' = Threw("storeIn", p, ProfileLocked)
          /\ calls' = calls
          /\ store' = EmptyStore
     ELSE /\ last' = last
          /\ store' = store
          /\ LET others == {d \in CallIds : StoreInFlight(d)}
             IN calls' = [d \in CallIds |->
                  IF d = c THEN [IdleCall EXCEPT !.op = "storeIn", !.pc = "clear",
                                                 !.profile = p,
                                                 !.createdAt = profiles[p].createdAt,
                                                 !.overlapped = others # {}]
                  ELSE IF d \in others THEN [calls[d] EXCEPT !.overlapped = TRUE]
                  ELSE calls[d]]
  /\ UNCHANGED <<profiles, keyringHeap, signedTxs, crashed, recovery, bip39, encoded>>

\* line 47-52: the lock check, then levelup(storage) and the call of
\* DatabaseUtils.clear(db), which the method awaits
StoreInStart(c, p) ==
  /\ ~crashed /\ Live(p) /\ Free(c)
  /\ IF ~StoreInLockCheck(p)
     THEN /\ last' = Threw("storeIn", p, ProfileLocked)
          /\ calls' = calls
     ELSE /\ last' = last
          /\ LET others == {d \in CallIds : StoreInFlight(d)}
             IN calls' = [d \in CallIds |->
                  IF d = c THEN [IdleCall EXCEPT !.op = "storeIn", !.pc = "clear",
                                                 !.profile = p,
                                                 !.createdAt = profiles[p].createdAt,
                                                 !.overlapped = others # {}]
                  ELSE IF d \in others THEN [calls[d] EXCEPT !.overlapped = TRUE]
                  ELSE calls[d]]
  /\ UNCHANGED <<profiles, keyringHeap, store, signedTxs, crashed, recovery, bip39, encoded>>

\* DatabaseUtils.clear(db): the keys the key stream of the store yields
KeysToClear(st) == KeysOf(st)

\* DatabaseUtils.clear(db): reads the key stream of the store ...
ClearScan(c) ==
  /\ ~crashed /\ At(c, "storeIn", "clear")
  /\ calls' = [calls EXCEPT ![c] = [@ EXCEPT !.keysToClear = KeysToClear(store),
                                             !.pc = IF KeysToClear(store) = << >>
                                                    THEN "put_created_at" ELSE "del"]]
  /\ UNCHANGED <<profiles, keyringHeap, store, last, signedTxs, crashed, recovery, bip39, encoded>>

\* ... and deletes the keys it read, one awaited db.del(key) after the other
ClearDel(c) ==
  /\ ~crashed /\ At(c, "storeIn", "del")
  /\ store' = Del(store, Head(calls[c].keysToClear))
  /\ calls' = [calls EXCEPT ![c] = [@ EXCEPT !.keysToClear = Tail(@),
                                             !.pc = IF Tail(calls[c].keysToClear) = << >>
                                                    THEN "put_created_at" ELSE "del"]]
  /\ UNCHANGED <<profiles, keyringHeap, last, signedTxs, crashed, recovery, bip39, encoded>>

CreatedAtRecordInLocalFormat(prof) == GarbageText

\* line 54: the text that is put under the created-at key
CreatedAtRecord(prof) == ToISOString(prof.createdAt)

\* line 54: await db.put(storageKeyCreatedAt, this.createdAt.toISOString())
PutCreatedAt(c) ==
  /\ ~crashed /\ At(c, "storeIn", "put_created_at")
  /\ LET p == calls[c].profile IN
     IF profiles[p].createdAt = InvalidDate
     THEN /\ last' = Threw("storeIn", p, RangeError)
          /\ calls' = [calls EXCEPT ![c] = IdleCall]
          /\ store' = store
     ELSE /\ store' = Put(store, storageKeyCreatedAt, CreatedAtRecord(profiles[p]))
          /\ calls' = [calls EXCEPT ![c] = [@ EXCEPT !.pc = "put_keyring"]]
          /\ last' = last
  /\ UNCHANGED <<profiles, keyringHeap, signedTxs, crashed, recovery, bip39, encoded>>

\* line 55: the keyring that the put serializes is this.keyring, read again
\* after the awaits of lines 52 and 54
KeyringAtPut(call) == profiles[call.profile].keyring

PutKeyringSkipped(c) ==
  /\ ~crashed /\ At(c, "storeIn", "put_keyring")
  /\ calls' = [calls EXCEPT ![c] = [@ EXCEPT !.pc = "close"]]
  /\ UNCHANGED <<profiles, keyringHeap, store, last, signedTxs, crashed, recovery, bip39, encoded>>

\* line 55: await db.put(storageKeyKeyring, this.keyring.serialize())
PutKeyring(c) ==
  /\ ~crashed /\ At(c, "storeIn", "put_keyring")
  /\ LET kid == KeyringAtPut(calls[c]) IN
     IF kid = Undefined
     THEN /\ last' = Threw("storeIn", calls[c].profile, TypeError)
          /\ calls' = [calls EXCEPT ![c] = IdleCall]
          /\ store' = store
     ELSE /\ store' = Put(store, storageKeyKeyring, Serialize(keyringHeap[kid]))
          /\ calls' = [calls EXCEPT ![c] = [@ EXCEPT !.pc = "close",
                                            !.keyringText = Serialize(keyringHeap[kid])]]
          /\ last' = last
  /\ UNCHANGED <<profiles, keyringHeap, signedTxs, crashed, recovery, bip39, encoded>>

StoreInCloseStamping(c) ==
  /\ ~crashed /\ At(c, "storeIn", "close")
  /\ calls' = [calls EXCEPT ![c] = IdleCall]
  /\ last' = Gave("storeIn", calls[c].profile, 0)
  /\ profiles' = [profiles EXCEPT ![calls[c].profile].createdAt = StoredCreatedAt]
  /\ UNCHANGED <<keyringHeap, store, signedTxs, crashed, recovery, bip39, encoded>>

\* line 57: await db.close(), and the method returns
StoreInClose(c) ==
  /\ ~crashed /\ At(c, "storeIn", "close")
  /\ calls' = [calls EXCEPT ![c] = IdleCall]
  /\ last' = Gave("storeIn", calls[c].profile, 0)
  /\ UNCHANGED <<profiles, keyringHeap, store, signedTxs, crashed, recovery, bip39, encoded>>

\* -------------------------------------------------------------- loadFrom()
GetCreatedAtErrorOfAnotherKind(st) ==
  IF storageKeyCreatedAt \notin DOMAIN st THEN InvalidSerialization ELSE NoError

\* line 24: db.get(storageKeyCreatedAt) rejects with not-found for a key
\* the store does not hold
GetCreatedAtError(st) ==
  IF storageKeyCreatedAt \notin DOMAIN st THEN MissingField ELSE NoError

\* line 25-27: db.get(storageKeyKeyring), then the constructor, whose
\* new Keyring(text) rejects what is no serialization
GetKeyringError(st) ==
  IF storageKeyKeyring \notin DOMAIN st THEN MissingField
  ELSE IF ~ValidSerialization(st[storageKeyKeyring]) THEN InvalidSerialization
  ELSE NoError

\* loadFrom on a store that nothing else touches while it runs
LoadFromRun(st) ==
  IF GetCreatedAtError(st) # NoError THEN NotLoaded(GetCreatedAtError(st))
  ELSE IF GetKeyringError(st) # NoError THEN NotLoaded(GetKeyringError(st))
  ELSE Loaded(NoError, ParseDate(st[storageKeyCreatedAt]), st[storageKeyKeyring])

FreeProfiles == {p \in ProfileIds : ~Live(p)}
LoadsInFlight == {c \in CallIds : calls[c].op = "loadFrom" /\ InFlight(c)}

\* line 23-24: levelup(storage) and the first db.get, which is awaited
LoadFromStart(c) ==
  /\ ~crashed /\ Free(c)
  /\ Cardinality(LoadsInFlight) < Cardinality(FreeProfiles)
  /\ calls' = [calls EXCEPT ![c] = [IdleCall EXCEPT !.op = "loadFrom",
                                                    !.pc = "get_created_at"]]
  /\ UNCHANGED <<profiles, keyringHeap, store, last, signedTxs, crashed, recovery, bip39, encoded>>

\* line 24: the first get settles; new ReadonlyDate(text) parses the text
LoadFromGetCreatedAt(c) ==
  /\ ~crashed /\ At(c, "loadFrom", "get_created_at")
  /\ IF GetCreatedAtError(store) # NoError
     THEN /\ last' = Threw("loadFrom", 0, GetCreatedAtError(store))
          /\ calls' = [calls EXCEPT ![c] = IdleCall]
     ELSE /\ last' = last
          /\ calls' = [calls EXCEPT ![c] = [@ EXCEPT !.pc = "get_keyring",
                             !.createdAt = ParseDate(store[storageKeyCreatedAt])]]
  /\ UNCHANGED <<profiles, keyringHeap, store, signedTxs, crashed, recovery, bip39, encoded>>

\* line 25-27: the second get settles, db.close(), and
\* new UserProfile(createdAt, keyring) is returned
LoadFromGetKeyring(c) ==
  /\ ~crashed /\ At(c, "loadFrom", "get_keyring")
  /\ calls' = [calls EXCEPT ![c] = IdleCall]
  /\ IF GetKeyringError(store) # NoError
     THEN /\ last' = Threw("loadFrom", 0, GetKeyringError(store))
          /\ UNCHANGED <<profiles, keyringHeap>>
     ELSE LET p == CHOOSE q \in FreeProfiles : \A r \in FreeProfiles : q <= r
          IN /\ last' = Gave("loadFrom", p, p)
             /\ profiles' = [profiles EXCEPT ![p] = Construct(calls[c].createdAt, p)]
             /\ keyringHeap' = [keyringHeap EXCEPT
                                  ![p] = Deserialize(store[storageKeyKeyring])]
  /\ UNCHANGED <<store, signedTxs, crashed, recovery, bip39, encoded>>

\* ------------------------------------------------------------------- crash
\* The process dies in the middle of a storeIn: its memory is gone and
\* nothing of it runs on; the store keeps what it holds.  The storeIn calls
\* it interrupted stay on record.
Crash ==
  /\ ~crashed
  /\ \E c \in CallIds : StoreInFlight(c)
  /\ crashed' = TRUE
  /\ profiles' = [p \in ProfileIds |-> NoProfile]
  /\ keyringHeap' = [p \in ProfileIds |-> EmptyKeyring]
  /\ calls' = [c \in CallIds |-> IF StoreInFlight(c) THEN calls[c] ELSE IdleCall]
  /\ last' = NoOutcome
  /\ signedTxs' = [t \in TxIds |-> NoTx]
  /\ UNCHANGED <<store, recovery, bip39, encoded>>

\* The restarted process calls UserProfile.loadFrom(storage); it is alone on
\* the store, so both its gets read the store the crash left.
RecoveryLoadFrom ==
  /\ crashed /\ recovery = NotRun
  /\ recovery' = LoadFromRun(store)
  /\ UNCHANGED <<profiles, keyringHeap, store, calls, last, signedTxs, crashed, bip39, encoded>>

\* ------------------------------------------------------- keyring entries
HasEntryFromOne(kr, n) == n \in 1..(Len(kr) - 1)

\* this.keyring.getEntries().find((_, index) => index === n): line 72
HasEntry(kr, n) == n \in 0..(Len(kr) - 1)
EntryAt(kr, n) == kr[n + 1]

Pubkeys(e) == {e.identities[i].pubkey : i \in 1..Len(e.identities)}

\* KeyringEntry.createIdentity(): the entry makes a key pair and appends
\* the identity, unlabelled, to its identities
NewPubkey(e) == e.secret * 10 + Len(e.identities) + 1
WithNewIdentity(e) ==
  [e EXCEPT !.identities = Append(@, [pubkey |-> NewPubkey(e), label |-> 0])]

\* KeyringEntry.setIdentityLabel(identity, label)
WithLabel(e, identity, label) ==
  [e EXCEPT !.identities = [i \in 1..Len(e.identities) |->
       IF e.identities[i].pubkey = identity
       THEN [e.identities[i] EXCEPT !.label = label] ELSE e.identities[i]]]

\* TxCodec.bytesToSign(transaction, nonce): a pure function of its inputs
BytesToSign(tx, nonce) == [transaction |-> tx, nonce |-> nonce]

\* KeyringEntry.createTransactionSignature(identity, bytes, chainId)
\* signs with the private key of the identity
SignatureBy(e, identity, bytes, chainId) ==
  [secret |-> e.secret, pubkey |-> identity, bytes |-> bytes, chainId |-> chainId]

\* line 129, 159: "chain!" as ChainId
ChainIdOf(tx) == "chain!"

\* the chain a transaction is for: the two transactions of the callers are
\* transactions of two different chains
TransactionChain(tx) == IF tx = 1 THEN "chain-a" ELSE "chain-b"

\* ---------------------------------------------------------- createIdentity
CreateIdentityInEveryEntry(p, n) ==
  /\ ~crashed /\ Live(p)
  /\ LET kid == profiles[p].keyring IN
     IF kid = Undefined
     THEN /\ last' = Threw("createIdentity", p, ProfileLocked)
          /\ keyringHeap' = keyringHeap
     ELSE IF ~HasEntry(keyringHeap[kid], n)
     THEN /\ last' = Threw("createIdentity", p, EntryNotFound)
          /\ keyringHeap' = keyringHeap
     ELSE /\ Len(EntryAt(keyringHeap[kid], n).identities) < MaxIdentities
          /\ last' = Gave("createIdentity", p, NewPubkey(EntryAt(keyringHeap[kid], n)))
          /\ keyringHeap' = [keyringHeap EXCEPT
               ![kid] = [m \in DOMAIN @ |-> WithNewIdentity(@[m])]]
  /\ UNCHANGED <<profiles, store, calls, signedTxs, crashed, recovery, bip39, encoded>>

\* line 67-78
CreateIdentity(p, n) ==
  /\ ~crashed /\ Live(p)
  /\ LET kid == profiles[p].keyring IN
     IF kid = Undefined
     THEN /\ last' = Threw("createIdentity", p, ProfileLocked)
          /\ keyringHeap' = keyringHeap
     ELSE IF ~HasEntry(keyringHeap[kid], n)
     THEN /\ last' = Threw("createIdentity", p, EntryNotFound)
          /\ keyringHeap' = keyringHeap
     ELSE /\ Len(EntryAt(keyringHeap[kid], n).identities) < MaxIdentities
          /\ last' = Gave("createIdentity", p, NewPubkey(EntryAt(keyringHeap[kid], n)))
          /\ keyringHeap' = [keyringHeap EXCEPT ![kid][n + 1] = WithNewIdentity(@)]
  /\ UNCHANGED <<profiles, store, calls, signedTxs, crashed, recovery, bip39, encoded>>

\* line 82-93
SetIdentityLabel(p, n, identity, label) ==
  /\ ~crashed /\ Live(p)
  /\ LET kid == profiles[p].keyring IN
     IF kid = Undefined
     THEN /\ last' = Threw("setIdentityLabel", p, ProfileLocked)
          /\ keyringHeap' = keyringHeap
     ELSE IF ~HasEntry(keyringHeap[kid], n)
     THEN /\ last' = Threw("setIdentityLabel", p, EntryNotFound)
          /\ keyringHeap' = keyringHeap
     ELSE IF identity \notin Pubkeys(EntryAt(keyringHeap[kid], n))
     THEN /\ last' = Threw("setIdentityLabel", p, IdentityNotFound)
          /\ keyringHeap' = keyringHeap
     ELSE /\ last' = Gave("setIdentityLabel", p, 0)
          /\ keyringHeap' = [keyringHeap EXCEPT ![kid][n + 1] = WithLabel(@, identity, label)]
  /\ UNCHANGED <<profiles, store, calls, signedTxs, crashed, recovery, bip39, encoded>>

\* line 96-107
GetIdentities(p, n) ==
  /\ ~crashed /\ Live(p)
  /\ LET kid == profiles[p].keyring IN
     IF kid = Undefined
     THEN last' = Threw("getIdentities", p, ProfileLocked)
     ELSE IF ~HasEntry(keyringHeap[kid], n)
     THEN last' = Threw("getIdentities", p, EntryNotFound)
     ELSE last' = Outcome("getIdentities", p, NoError, 0,
                          EntryAt(keyringHeap[kid], n).identities)
  /\ UNCHANGED <<profiles, keyringHeap, store, calls, signedTxs, crashed, recovery, bip39, encoded>>

\* ------------------------------------------- signTransaction, appendSignature
Signing(c) == calls[c].op \in {"signTransaction", "appendSignature"} /\ InFlight(c)
FreeTxs == {t \in TxIds : ~signedTxs[t].exists}
CanSign ==
  /\ Cardinality({c \in CallIds : Signing(c)}) < MaxSigning
  /\ Cardinality({c \in CallIds : Signing(c)}) < Cardinality(FreeTxs)
NewTx == CHOOSE t \in FreeTxs : \A u \in FreeTxs : t <= u

SigningStartBytesFirst(c, op, p, n, identity, tx, input, nonce) ==
  /\ ~crashed /\ Live(p) /\ Free(c) /\ CanSign
  /\ LET kid == profiles[p].keyring
         asked == [calls EXCEPT ![c] = [@ EXCEPT !.bytes = BytesToSign(tx, nonce)]]
     IN
     IF kid = Undefined
     THEN /\ last' = Threw(op, p, ProfileLocked)
          /\ calls' = asked
     ELSE IF ~HasEntry(keyringHeap[kid], n)
     THEN /\ last' = Threw(op, p, EntryNotFound)
          /\ calls' = asked
     ELSE /\ last' = last
          /\ calls' = [calls EXCEPT ![c] =
               [IdleCall EXCEPT !.op = op, !.pc = "await_signature", !.profile = p,
                                !.entry = [keyring |-> kid, index |-> n],
                                !.identity = identity, !.transaction = tx,
                                !.input = input, !.nonce = nonce,
                                !.bytes = BytesToSign(tx, nonce)]]
  /\ UNCHANGED <<profiles, keyringHeap, store, signedTxs, crashed, recovery, bip39, encoded>>

\* line 116-130 and 146-160: the lock check, the entry lookup, the bytes to
\* sign, and the call of entry.createTransactionSignature, which is awaited
SigningStart(c, op, p, n, identity, tx, input, nonce) ==
  /\ ~crashed /\ Live(p) /\ Free(c) /\ CanSign
  /\ LET kid == profiles[p].keyring IN
     IF kid = Undefined
     THEN /\ last' = Threw(op, p, ProfileLocked)
          /\ calls' = calls
     ELSE IF ~HasEntry(keyringHeap[kid], n)
     THEN /\ last' = Threw(op, p, EntryNotFound)
          /\ calls' = calls
     ELSE /\ last' = last
          /\ calls' = [calls EXCEPT ![c] =
               [IdleCall EXCEPT !.op = op, !.pc = "await_signature", !.profile = p,
                                !.entry = [keyring |-> kid, index |-> n],
                                !.identity = identity, !.transaction = tx,
                                !.input = input, !.nonce = nonce,
                                !.bytes = BytesToSign(tx, nonce)]]
  /\ UNCHANGED <<profiles, keyringHeap, store, signedTxs, crashed, recovery, bip39, encoded>>

\* line 109-130
SignTransactionStart(c, p, n, identity, tx, nonce) ==
  SigningStart(c, "signTransaction", p, n, identity, tx, 0, nonce)

\* line 139-160: the bytes are those of originalTransaction.transaction
AppendSignatureStart(c, p, n, identity, input, nonce) ==
  /\ signedTxs[input].exists
  /\ SigningStart(c, "appendSignature", p, n, identity,
                  signedTxs[input].transaction, input, nonce)

\* the local `entry` of line 120 and 150, which the call holds on to
\* across the await
CapturedEntryReadAgain(call) ==
  IF profiles[call.profile].keyring = Undefined THEN NewEntry(0)
  ELSE keyringHeap[profiles[call.profile].keyring][call.entry.index + 1]

CapturedEntry(call) == keyringHeap[call.entry.keyring][call.entry.index + 1]

FullSignatureOfWithPrimaryNonce(call, e) ==
  [publicKey |-> call.identity,
   nonce |-> IF call.input # 0 THEN signedTxs[call.input].primarySignature.nonce
             ELSE call.nonce,
   signature |-> SignatureBy(e, call.identity, call.bytes, ChainIdOf(call.transaction))]

\* line 126-130, 156-160: the FullSignature of the call
FullSignatureOf(call, e) ==
  [publicKey |-> call.identity, nonce |-> call.nonce,
   signature |-> SignatureBy(e, call.identity, call.bytes, ChainIdOf(call.transaction))]

SignedByAlsoAsOther(call, sig) ==
  [exists |-> TRUE, transaction |-> call.transaction, primarySignature |-> sig,
   otherSignatures |-> <<sig>>]

\* line 132-136: what signTransaction returns
SignedBy(call, sig) ==
  [exists |-> TRUE, transaction |-> call.transaction, primarySignature |-> sig,
   otherSignatures |-> << >>]

AppendedInFront(original, sig) ==
  [exists |-> TRUE, transaction |-> original.transaction,
   primarySignature |-> original.primarySignature,
   otherSignatures |-> <<sig>> \o original.otherSignatures]

\* line 162-166: what appendSignature returns
Appended(original, sig) ==
  [exists |-> TRUE, transaction |-> original.transaction,
   primarySignature |-> original.primarySignature,
   otherSignatures |-> Append(original.otherSignatures, sig)]

\* line 129-136: createTransactionSignature settles and the call returns
SignTransactionSettle(c) ==
  /\ ~crashed /\ At(c, "signTransaction", "await_signature")
  /\ calls' = [calls EXCEPT ![c] = IdleCall]
  /\ LET e == CapturedEntry(calls[c]) IN
     IF calls[c].identity \notin Pubkeys(e)
     THEN /\ last' = Threw("signTransaction", calls[c].profile, SigningFailure)
          /\ signedTxs' = signedTxs
     ELSE /\ last' = Gave("signTransaction", calls[c].profile, NewTx)
          /\ signedTxs' = [signedTxs EXCEPT
                             ![NewTx] = SignedBy(calls[c], FullSignatureOf(calls[c], e))]
  /\ UNCHANGED <<profiles, keyringHeap, store, crashed, recovery, bip39, encoded>>

AppendSignatureSettleSwallowing(c) ==
  /\ ~crashed /\ At(c, "appendSignature", "await_signature")
  /\ calls' = [calls EXCEPT ![c] = IdleCall]
  /\ LET e == CapturedEntry(calls[c]) IN
     IF calls[c].identity \notin Pubkeys(e)
     THEN /\ last' = Gave("appendSignature", calls[c].profile, calls[c].input)
          /\ signedTxs' = signedTxs
     ELSE /\ last' = Gave("appendSignature", calls[c].profile, NewTx)
          /\ signedTxs' = [signedTxs EXCEPT
                             ![NewTx] = Appended(signedTxs[calls[c].input],
                                                 FullSignatureOf(calls[c], e))]
  /\ UNCHANGED <<profiles, keyringHeap, store, crashed, recovery, bip39, encoded>>

\* line 159-166
AppendSignatureSettle(c) ==
  /\ ~crashed /\ At(c, "appendSignature", "await_signature")
  /\ calls' = [calls EXCEPT ![c] = IdleCall]
  /\ LET e == CapturedEntry(calls[c]) IN
     IF calls[c].identity \notin Pubkeys(e)
     THEN /\ last' = Threw("appendSignature", calls[c].profile, SigningFailure)
          /\ signedTxs' = signedTxs
     ELSE /\ last' = Gave("appendSignature", calls[c].profile, NewTx)
          /\ signedTxs' = [signedTxs EXCEPT
                             ![NewTx] = Appended(signedTxs[calls[c].input],
                                                 FullSignatureOf(calls[c], e))]
  /\ UNCHANGED <<profiles, keyringHeap, store, crashed, recovery, bip39, encoded>>

\* ------------------------------------------------------- the specifications
\* the arguments the callers pass
EntryIndexes == -1..2
Labels == {0, 1}
IdentityArgs == {11, 21}
Transactions == {1, 2}
Nonces == {1, 2}

LockSteps == \E p \in ProfileIds : Lock(p)

StoreSteps ==
  \/ \E c \in CallIds, p \in ProfileIds : StoreInStart(c, p)
  \/ \E c \in CallIds : ClearScan(c)
  \/ \E c \in CallIds : ClearDel(c)
  \/ \E c \in CallIds : PutCreatedAt(c)
  \/ \E c \in CallIds : PutKeyring(c)
  \/ \E c \in CallIds : StoreInClose(c)
  \/ \E c \in CallIds : LoadFromStart(c)
  \/ \E c \in CallIds : LoadFromGetCreatedAt(c)
  \/ \E c \in CallIds : LoadFromGetKeyring(c)
  \/ Crash
  \/ RecoveryLoadFrom

IdentitySteps(ns, ids, labels) ==
  \/ \E p \in ProfileIds, n \in ns : CreateIdentity(p, n)
  \/ \E p \in ProfileIds, n \in ns, i \in ids, l \in labels : SetIdentityLabel(p, n, i, l)
  \/ \E p \in ProfileIds, n \in ns : GetIdentities(p, n)

SigningSteps(ns, ids, txs, nonces) ==
  \/ \E c \in CallIds, p \in ProfileIds, n \in ns, i \in ids, tx \in txs, nonce \in nonces :
       SignTransactionStart(c, p, n, i, tx, nonce)
  \/ \E c \in CallIds, p \in ProfileIds, n \in ns, i \in ids, t \in TxIds, nonce \in nonces :
       AppendSignatureStart(c, p, n, i, t, nonce)
  \/ \E c \in CallIds : SignTransactionSettle(c)
  \/ \E c \in CallIds : AppendSignatureSettle(c)

\* every operation, called by one caller that awaits each call before it
\* makes the next one, while lock() comes at any moment
Quiet == \A c \in CallIds : ~InFlight(c)

\* the arguments of that caller: an entry index in range and one out of
\* range, the identity that the entry creates first
CallerEntryIndexes == {0, 1}
CallerIdentities == {11}
CallerLabels == {1}
CallerTransactions == {1}
CallerNonces == {1}

Next ==
  \/ LockSteps
  \/ Quiet /\ \E p \in ProfileIds : StoreInStart(1, p)
  \/ Quiet /\ LoadFromStart(1)
  \/ Quiet /\ IdentitySteps(CallerEntryIndexes, CallerIdentities, CallerLabels)
  \/ Quiet /\ \E p \in ProfileIds, n \in CallerEntryIndexes, i \in CallerIdentities,
                   tx \in CallerTransactions, nonce \in CallerNonces :
                SignTransactionStart(1, p, n, i, tx, nonce)
  \/ Quiet /\ \E p \in ProfileIds, n \in CallerEntryIndexes, i \in CallerIdentities,
                   t \in TxIds, nonce \in CallerNonces :
                AppendSignatureStart(1, p, n, i, t, nonce)
  \/ ClearScan(1) \/ ClearDel(1) \/ PutCreatedAt(1) \/ PutKeyring(1) \/ StoreInClose(1)
  \/ LoadFromGetCreatedAt(1) \/ LoadFromGetKeyring(1)
  \/ SignTransactionSettle(1) \/ AppendSignatureSettle(1)
  \/ Crash
  \/ RecoveryLoadFrom

Spec == Init /\ [][Next]_vars

\* persistence: storeIn and loadFrom beside lock and createIdentity
NextStore ==
  \/ LockSteps
  \/ StoreSteps
  \/ \E p \in ProfileIds, n \in {0} : CreateIdentity(p, n)

InitStore ==
  /\ InitWith({EmptyKeyring, <<NewEntry(1)>>}, InitialStores, {NoTx})
  /\ bip39 = NoBip39Call

SpecStore == InitStore /\ [][NextStore]_vars

\* signing: the identity and signing operations beside lock
NextSign ==
  \/ LockSteps
  \/ IdentitySteps(EntryIndexes, IdentityArgs, Labels)
  \/ SigningSteps(EntryIndexes, IdentityArgs, Transactions, Nonces)

InitSign ==
  /\ InitWith(InitialKeyrings, {EmptyStore}, {NoTx, ReceivedTx})
  /\ bip39 = NoBip39Call

SpecSign == InitSign /\ [][NextSign]_vars

\* entry lookup: the operations that address an entry, with every entry
\* index, on keyrings of no, one and two entries
NextEntry ==
  \/ LockSteps
  \/ IdentitySteps(EntryIndexes, CallerIdentities, CallerLabels)
  \/ SigningSteps(EntryIndexes, CallerIdentities, CallerTransactions, CallerNonces)

InitEntry ==
  /\ InitWith(InitialKeyrings, {EmptyStore}, {NoTx})
  /\ bip39 = NoBip39Call

SpecEntry == InitEntry /\ [][NextEntry]_vars

\* the mnemonic codec: Bip39.encode and Bip39.decode on the entropies and
\* the texts below, and each on what the other gave
ConstantBytes == {0, 127, 128, 255}
InputLengths == {0, 1, 15, 16, 17, 20, 23, 24, 25, 28, 31, 32, 33}

\* the mnemonics of the valid entropies, and texts of one word repeated
ValidMnemonics ==
  {Encode(Repeated(b, len)).mnemonic : b \in ConstantBytes, len \in EntropyLengths}
RepeatedWords == {Join(Repeated(w, n)) : w \in {"zoo", "abandon"}, n \in 11..25}

\* a text with its last word taken away, with a word added, with its last
\* word replaced
WithoutLastWord(text) == SubSeq(text, 1, Len(text) - 2)
WithWord(text, w) == text \o <<Space, w>>
WithLastWord(text, w) == SubSeq(text, 1, Len(text) - 1) \o <<w>>
\* the word whose index differs in the last bit, a bit of the checksum
Neighbour(w) ==
  Wordlist[IF IndexOf(w) % 2 = 0 THEN IndexOf(w) + 1 ELSE IndexOf(w) - 1]

\* a leading, a trailing, a doubled space; a piece with an uppercase
\* letter or a digit
IllFormattedOf(text) ==
  {<<Space>> \o text, text \o <<Space>>,
   <<text[1], Space>> \o Tail(text),
   SubSeq(text, 1, Len(text) - 1) \o <<Space, text[Len(text)]>>}
    \cup {<<w>> \o Tail(text) : w \in OutsideAToZ}
    \cup {WithLastWord(text, w) : w \in OutsideAToZ}

\* a text of words of the list with bit k of its 11 bits per word flipped
BitFlipped(text, k) ==
  LET bits == BitsOfAll(IndexesOf(SplitOnSpaces(text)), WordBits)
  IN Join(WordsAt(Groups([i \in 1..Len(bits) |-> IF i = k THEN 1 - bits[i] ELSE bits[i]])))

\* the mnemonics of the entropies of 16 bytes, each with one of its 132
\* bits flipped
BitFlips ==
  {[byte |-> b, bit |-> k, text |-> BitFlipped(Encode(Repeated(b, 16)).mnemonic, k)] :
     b \in ConstantBytes, k \in 1..132}

TextInputs ==
  ValidMnemonics \cup RepeatedWords \cup {f.text : f \in BitFlips}
    \cup {WithoutLastWord(m) : m \in ValidMnemonics}
    \cup {WithWord(m, "zoo") : m \in ValidMnemonics}
    \cup {WithLastWord(m, UnlistedWord) : m \in ValidMnemonics}
    \cup {WithLastWord(m, Neighbour(m[Len(m)])) : m \in ValidMnemonics}
    \cup UNION {IllFormattedOf(t) :
                  t \in ValidMnemonics
                         \cup {Join(Repeated("zoo", n)) : n \in {11, 12, 13, 24, 25}}
                         \cup {WithoutLastWord(m) : m \in ValidMnemonics}}

\* the caller has an entropy or a text at hand and calls Bip39 with it
EncodeEntropy ==
  /\ bip39.op = "entropy"
  /\ bip39' = Encode(bip39.entropy)
DecodeText ==
  /\ bip39.op = "text"
  /\ bip39' = Decode(bip39.mnemonic)
\* and with what a call gave
EncodeDecoded ==
  /\ bip39.op = "decode" /\ bip39.error = NoError /\ Hashed(bip39.entropy)
  /\ bip39' = [Encode(bip39.entropy) EXCEPT !.op = "encode of decoded"]
DecodeEncoded ==
  /\ bip39.op = "encode" /\ bip39.error = NoError
  /\ bip39' = [Decode(bip39.mnemonic) EXCEPT !.op = "decode of encoded"]

NextMnemonic ==
  /\ \/ EncodeEntropy
     \/ DecodeText
     \/ EncodeDecoded
     \/ DecodeEncoded
  /\ UNCHANGED <<profiles, keyringHeap, store, calls, last, signedTxs, crashed, recovery, encoded>>

InitMnemonic ==
  /\ InitWith({EmptyKeyring}, {EmptyStore}, {NoTx})
  /\ bip39 \in {Bip39Call("entropy", Repeated(b, len), << >>, NoError, 0) :
                   b \in ConstantBytes, len \in InputLengths}
               \cup {Bip39Call("text", << >>, t, NoError, 0) : t \in TextInputs}

SpecMnemonic == InitMnemonic /\ [][NextMnemonic]_vars

\* the seed derivation: calls of Bip39.mnemonicToSeed, one after the other;
\* bip39 holds what each call was given and what it gave
MnemonicToSeedCall ==
  /\ Len(bip39) < MaxSeedCalls
  /\ \E text \in SeedTexts, passphrase \in PassphraseArgs :
       bip39' = Append(bip39, MnemonicToSeed(text, passphrase))
  /\ UNCHANGED <<profiles, keyringHeap, store, calls, last, signedTxs, crashed, recovery, encoded>>

NextSeed == MnemonicToSeedCall

InitSeed ==
  /\ InitWith({EmptyKeyring}, {EmptyStore}, {NoTx})
  /\ bip39 = << >>

SpecSeed == InitSeed /\ [][NextSeed]_vars

\* the encoders of bns-codec, called one after the other on public keys and
\* signatures of every algorithm
KeyData == {1, 2}
SignatureData == {7, 8}
PublicKeyBundles == [algo : Algorithms, data : KeyData]
FullSignatures == [publicKey : PublicKeyBundles, nonce : 0..MaxNonce, signature : SignatureData]

EncoderCall(op, argument, result) == [op |-> op, argument |-> argument, result |-> result]

EncodeFullSigCall ==
  /\ Len(encoded) < MaxEncodeCalls
  /\ \E sig \in FullSignatures :
       encoded' = Append(encoded, EncoderCall("encodeFullSig", sig, EncodeFullSig(sig)))
  /\ UNCHANGED <<profiles, keyringHeap, store, calls, last, signedTxs, crashed, recovery, bip39>>

EncodePubKeyCall ==
  /\ Len(encoded) < MaxEncodeCalls
  /\ \E publicKey \in PublicKeyBundles :
       encoded' = Append(encoded, EncoderCall("encodePubKey", publicKey,
                                              EncodePubKey(publicKey)))
  /\ UNCHANGED <<profiles, keyringHeap, store, calls, last, signedTxs, crashed, recovery, bip39>>

EncodeSignatureCall ==
  /\ Len(encoded) < MaxEncodeCalls
  /\ \E algo \in Algorithms, sigs \in SignatureData :
       encoded' = Append(encoded, EncoderCall("encodeSignature",
                                              [algo |-> algo, sigs |-> sigs],
                                              EncodeSignature(algo, sigs)))
  /\ UNCHANGED <<profiles, keyringHeap, store, calls, last, signedTxs, crashed, recovery, bip39>>

NextCodec == EncodeFullSigCall \/ EncodePubKeyCall \/ EncodeSignatureCall

InitCodec ==
  /\ InitWith({EmptyKeyring}, {EmptyStore}, {NoTx})
  /\ bip39 = NoBip39Call

SpecCodec == InitCodec /\ [][NextCodec]_vars

\* ================================================================ properties
\* ---------------------------------------------------------------------- C1
\* C1: locked is terminal.  Once lock() has run on an instance, no step of
\* any operation on it (lock() again included) makes its keyring present
\* again or takes it back to unlocked, for as long as the instance lives.
C1_LockedIsTerminal ==
  [][\A p \in ProfileIds :
       (Live(p) /\ profiles'[p].exists /\ (profiles[p].locked \/ Lock(p)))
         => (profiles'[p].keyring = Undefined /\ profiles'[p].locked)]_vars

\* a locked instance on which a later createIdentity was tried
C1_Witness ==
  \E p \in ProfileIds :
    /\ Live(p) /\ profiles[p].locked /\ profiles[p].keyring = Undefined
    /\ last = Threw("createIdentity", p, ProfileLocked)

\* ---------------------------------------------------------------------- C2
\* what a rejected call leaves: the ProfileLocked error and nothing else
RejectedAsLocked(op, p) ==
  /\ last' = Threw(op, p, ProfileLocked)
  /\ UNCHANGED <<profiles, keyringHeap, store, calls, signedTxs>>

\* C2: every createIdentity, setIdentityLabel, getIdentities,
\* signTransaction, appendSignature and storeIn that starts after lock() has
\* been called fails with ProfileLocked, whatever arguments the caller
\* passes, and gives no identity, no signature and no stored record.
C2_CallsAfterLockFail ==
  [][\A p \in ProfileIds : (Live(p) /\ profiles[p].locked) =>
       /\ (\E c \in CallIds : StoreInStart(c, p)) => RejectedAsLocked("storeIn", p)
       /\ (\E n \in CallerEntryIndexes : CreateIdentity(p, n))
            => RejectedAsLocked("createIdentity", p)
       /\ (\E n \in CallerEntryIndexes, i \in CallerIdentities, l \in CallerLabels :
              SetIdentityLabel(p, n, i, l)) => RejectedAsLocked("setIdentityLabel", p)
       /\ (\E n \in CallerEntryIndexes : GetIdentities(p, n))
            => RejectedAsLocked("getIdentities", p)
       /\ (\E c \in CallIds, n \in CallerEntryIndexes, i \in CallerIdentities,
              tx \in CallerTransactions, nonce \in CallerNonces :
              SignTransactionStart(c, p, n, i, tx, nonce))
            => RejectedAsLocked("signTransaction", p)
       /\ (\E c \in CallIds, n \in CallerEntryIndexes, i \in CallerIdentities,
              t \in TxIds, nonce \in CallerNonces :
              AppendSignatureStart(c, p, n, i, t, nonce))
            => RejectedAsLocked("appendSignature", p)]_vars

\* an appendSignature on a locked instance, for a transaction it signed
\* while it was unlocked
C2_Witness ==
  \E p \in ProfileIds :
    /\ Live(p) /\ profiles[p].locked
    /\ last = Threw("appendSignature", p, ProfileLocked)
    /\ \E t \in TxIds : signedTxs[t].exists

\* ---------------------------------------------------------------------- C3
\* C3: the lock stream carries false from construction until lock() is
\* called and true afterwards.  A new instance carries false; the value
\* becomes true by a lock() and by nothing else; lock() makes it true; and
\* once true it never is false again.
C3_LockStream ==
  /\ \A p \in ProfileIds : Live(p) => ~profiles[p].locked
  /\ [][\A p \in ProfileIds :
          /\ (~Live(p) /\ profiles'[p].exists) => ~profiles'[p].locked
          /\ (Live(p) /\ profiles'[p].exists) =>
                /\ profiles[p].locked => profiles'[p].locked
                /\ Lock(p) => profiles'[p].locked
                /\ (~profiles[p].locked /\ profiles'[p].locked) => Lock(p)]_vars

\* two instances, the first locked, the one loaded from the store not
C3_Witness ==
  /\ Live(1) /\ profiles[1].locked
  /\ Live(2) /\ ~profiles[2].locked
  /\ last = Gave("loadFrom", 2, 2)

\* ---------------------------------------------------------------------- C4
\* the signatures of a SignedTransaction, the primary one first
SignaturesOf(tx) == <<tx.primarySignature>> \o tx.otherSignatures

\* C4: lock() during a signTransaction or appendSignature that awaits the
\* signature of its entry.  When such a call settles on the locked instance,
\* for an identity that the addressed entry knows, it either fails with
\* ProfileLocked and returns nothing, or returns a transaction whose newest
\* signature is the one the addressed entry of the instance's keyring makes
\* over the call's bytes; no other failure and no other signature.
C4_LockDuringSigning ==
  [][\A c \in CallIds :
       LET call == calls[c]
           p == call.profile
           entry == keyringHeap[p][call.entry.index + 1]
           made == signedTxs'[NewTx]
       IN (/\ Signing(c) /\ calls'[c].pc = "idle"
           /\ profiles[p].locked
           /\ call.identity \in Pubkeys(entry)) =>
            \/ /\ last' = Threw(call.op, p, ProfileLocked)
               /\ signedTxs' = signedTxs
            \/ /\ last' = Gave(call.op, p, NewTx)
               /\ SignaturesOf(made)[Len(SignaturesOf(made))] =
                    [publicKey |-> call.identity, nonce |-> call.nonce,
                     signature |-> SignatureBy(entry, call.identity,
                                               BytesToSign(call.transaction, call.nonce),
                                               "chain!")]]_vars

\* an appendSignature in flight on an instance that was locked after the
\* call had started, for an identity its entry knows
C4_Witness ==
  \E c \in CallIds :
    /\ At(c, "appendSignature", "await_signature")
    /\ profiles[calls[c].profile].locked
    /\ calls[c].identity \in Pubkeys(keyringHeap[calls[c].profile][calls[c].entry.index + 1])

\* ---------------------------------------------------------------------- C5
\* C5: every operation is atomic with respect to lock().  No call that
\* passed its lock check fails later because it finds the keyring
\* reference absent; a storeIn in particular ends with ProfileLocked or
\* with both records written (or, for a creation time that is no date,
\* with the RangeError of toISOString, which has nothing to do with lock).
C5_AtomicWithLock ==
  /\ last.error # TypeError
  /\ last.op = "storeIn" => last.error \in {NoError, ProfileLocked, RangeError}

\* ---------------------------------------------------------------------- C6
\* a storeIn that ran beside no other storeIn has written both its records
\* and awaits the close of the database
Stored(c) == ~crashed /\ At(c, "storeIn", "close") /\ ~calls[c].overlapped

\* the two records of a profile
RecordsOf(createdAt, keyringText) ==
  (storageKeyCreatedAt :> ToISOString(createdAt)) @@ (storageKeyKeyring :> keyringText)

\* C6: when a storeIn on an unlocked profile has done its writes, the store
\* holds exactly two records: the creation time of the profile as its
\* canonical text under the created-at key and the serialization that the
\* call took of the keyring under the keyring key (the keyring as it is
\* now, less the identities created since); every other key that was in
\* the store, the unrelated ones included, reads as not-found.
\* (No other storeIn works on the store meanwhile.)
C6_StoreInLeavesTwoRecords ==
  \A c \in CallIds : Stored(c) =>
    /\ store = RecordsOf(profiles[calls[c].profile].createdAt, calls[c].keyringText)
    /\ unrelatedKey \notin DOMAIN store
    /\ \E later \in 0..MaxIdentities :
         LET kr == keyringHeap[calls[c].profile] IN
         store[storageKeyKeyring] =
           Serialize([i \in 1..Len(kr) |->
                        [kr[i] EXCEPT !.identities = SubSeq(@, 1, Len(@) - later)]])

\* the first profile stored itself over the records of the earlier profile,
\* which is in memory as the second profile, loaded before
C6_Witness ==
  \E c \in CallIds :
    /\ Stored(c) /\ calls[c].profile = 1
    /\ last = Gave("loadFrom", 2, 2)
    /\ profiles[2].createdAt = StoredCreatedAt
    /\ store[storageKeyCreatedAt] = ToISOString(InitialCreatedAt)

\* ---------------------------------------------------------------------- C7
\* C7: store round trip.  On the store that a completed storeIn of an
\* unlocked profile left, loadFrom succeeds and constructs an unlocked
\* profile whose creation time is the one of the stored profile and whose
\* keyring serializes to the text that storeIn took of the stored
\* profile's keyring.
C7_StoreRoundTrip ==
  \A c \in CallIds : Stored(c) =>
    LET r == LoadFromRun(store)
        loaded == Construct(r.createdAt, 1)
    IN /\ r.error = NoError
       /\ loaded.createdAt = profiles[calls[c].profile].createdAt
       /\ ~loaded.locked /\ loaded.keyring # Undefined
       /\ ValidSerialization(r.keyringText)
       /\ Serialize(Deserialize(r.keyringText)) = calls[c].keyringText

\* the second profile is what loadFrom made of the records the first
\* profile stored, identity included
C7_Witness ==
  /\ last = Gave("loadFrom", 2, 2)
  /\ ~profiles[2].locked
  /\ profiles[2].createdAt = InitialCreatedAt
  /\ profiles[2].createdAt = profiles[1].createdAt
  /\ Len(keyringHeap[2]) = 1 /\ Len(keyringHeap[2][1].identities) = 1
  /\ keyringHeap[2] = keyringHeap[1]
  /\ store = RecordsOf(InitialCreatedAt, Serialize(keyringHeap[1]))

\* ---------------------------------------------------------------------- C8
\* C8: loadFrom fails with MissingField and makes no profile when the
\* record it reads is absent, be it the created-at record or the keyring
\* record; a loadFrom that succeeds has found both.  For the load that is
\* alone on the store: MissingField exactly when a record is absent.
C8_LoadFromMissingField ==
  /\ [](recovery # NotRun =>
         /\ (recovery.error = MissingField) <=>
               ({storageKeyCreatedAt, storageKeyKeyring} \ DOMAIN store # {})
         /\ (recovery.error = NoError) =>
               ({storageKeyCreatedAt, storageKeyKeyring} \subseteq DOMAIN store))
  /\ [][\A c \in CallIds :
          /\ (LoadFromGetCreatedAt(c) /\ storageKeyCreatedAt \notin DOMAIN store)
               => (last' = Threw("loadFrom", 0, MissingField) /\ profiles' = profiles)
          /\ (LoadFromGetKeyring(c) /\ storageKeyKeyring \notin DOMAIN store)
               => (last' = Threw("loadFrom", 0, MissingField) /\ profiles' = profiles)
          /\ (LoadFromGetCreatedAt(c) /\ calls'[c].pc = "get_keyring")
               => storageKeyCreatedAt \in DOMAIN store
          /\ (LoadFromGetKeyring(c) /\ last'.error = NoError)
               => storageKeyKeyring \in DOMAIN store]_vars

\* a loadFrom failed on a store that holds the created-at record only
C8_Witness ==
  /\ last = Threw("loadFrom", 0, MissingField)
  /\ DOMAIN store = {storageKeyCreatedAt}
  /\ \A p \in ProfileIds : Live(p) => p = 1

\* ---------------------------------------------------------------------- C9
\* the process died in the storeIn c, which ran beside no other storeIn,
\* and the restarted process has called loadFrom
Interrupted(c) ==
  /\ crashed /\ recovery # NotRun
  /\ StoreInFlight(c) /\ ~calls[c].overlapped

\* C9, as stated: wherever the crash hit the storeIn, loadFrom fails with
\* MissingField or returns exactly the profile that was being stored.
C9_AsStated ==
  \A c \in CallIds : Interrupted(c) =>
    \/ recovery.error = MissingField
    \/ /\ recovery.error = NoError
       /\ recovery.createdAt = calls[c].createdAt
       /\ calls[c].pc = "close" => recovery.keyringText = calls[c].keyringText

\* C9, amended: a crash after clear has finished and before both records
\* are written leaves a store on which loadFrom fails with MissingField; a
\* crash after both writes leaves exactly the profile being stored; only a
\* crash before clear has finished (the call has written nothing yet) can
\* leave records of the previous content for loadFrom to read.
C9_CrashDuringStoreIn ==
  \A c \in CallIds : Interrupted(c) =>
    /\ calls[c].pc \in {"put_created_at", "put_keyring"}
         => recovery = NotLoaded(MissingField)
    /\ calls[c].pc = "close"
         => recovery = Loaded(NoError, calls[c].createdAt, calls[c].keyringText)
    /\ recovery.error # MissingField => calls[c].pc \in {"clear", "del", "close"}

\* the crash came between the two puts, over a store that held the whole
\* earlier profile, and the load after it failed
C9_Witness ==
  \E c \in CallIds :
    /\ Interrupted(c) /\ calls[c].pc = "put_keyring"
    /\ store = (storageKeyCreatedAt :> ToISOString(InitialCreatedAt))
    /\ recovery = NotLoaded(MissingField)

C11_SignTransactionResult ==
  [][\A c \in CallIds :
       (/\ At(c, "signTransaction", "await_signature") /\ calls'[c].pc = "idle"
        /\ last'.error = NoError) =>
          LET call == calls[c]
              entry == keyringHeap[call.profile][call.entry.index + 1]
              made == signedTxs'[last'.result]
          IN /\ last'.op = "signTransaction" /\ last'.profile = call.profile
             /\ last'.result \in TxIds /\ ~signedTxs[last'.result].exists
             /\ made.exists
             /\ made.transaction = call.transaction
             /\ made.otherSignatures = << >>
             /\ made.primarySignature.publicKey = call.identity
             /\ made.primarySignature.nonce = call.nonce
             /\ call.identity \in Pubkeys(entry)
             /\ made.primarySignature.signature.secret = entry.secret
             /\ made.primarySignature.signature.pubkey = call.identity
             /\ made.primarySignature.signature.bytes =
                  [transaction |-> call.transaction, nonce |-> call.nonce]]_vars

\* the unlocked profile signed the second transaction under the second nonce
C11_Witness ==
  \E t \in TxIds :
    /\ last = Gave("signTransaction", 1, t)
    /\ ~profiles[1].locked
    /\ signedTxs[t].transaction = 2
    /\ signedTxs[t].primarySignature.nonce = 2
    /\ signedTxs[t].primarySignature.publicKey \in Pubkeys(keyringHeap[1][1])
    /\ signedTxs[t].otherSignatures = << >>

\* --------------------------------------------------------------------- C12
\* C12: nonce binding.  The FullSignature that a signTransaction or an
\* appendSignature makes records the nonce given to that call, which is
\* the nonce of the bytes that were signed; an appendSignature leaves the
\* primary signature and the earlier other signatures, their nonces
\* included, as they were.
C12_NonceBinding ==
  [][\A c \in CallIds :
       (Signing(c) /\ calls'[c].pc = "idle" /\ last'.error = NoError) =>
          LET call == calls[c]
              made == signedTxs'[last'.result]
              newest == SignaturesOf(made)[Len(SignaturesOf(made))]
          IN /\ newest.nonce = call.nonce
             /\ newest.signature.bytes.nonce = call.nonce
             /\ newest.signature.bytes.transaction = made.transaction
             /\ call.op = "appendSignature" =>
                  /\ made.primarySignature = signedTxs[call.input].primarySignature
                  /\ \A i \in 1..Len(signedTxs[call.input].otherSignatures) :
                       made.otherSignatures[i] = signedTxs[call.input].otherSignatures[i]]_vars

\* a transaction signed under the first nonce and co-signed under the second
C12_Witness ==
  \E t \in TxIds :
    /\ last = Gave("appendSignature", 1, t)
    /\ signedTxs[t].primarySignature.nonce = 1
    /\ signedTxs[t].primarySignature.signature.bytes.nonce = 1
    /\ Len(signedTxs[t].otherSignatures) = 1
    /\ signedTxs[t].otherSignatures[1].nonce = 2
    /\ signedTxs[t].otherSignatures[1].signature.bytes.nonce = 2

\* --------------------------------------------------------------------- C13
\* C13: on an unlocked profile createIdentity, setIdentityLabel,
\* getIdentities, signTransaction and appendSignature fail with
\* EntryNotFound exactly when the entry index is not an index of the
\* keyring's entries (negative, or at least the number of entries); over an
\* empty keyring every index fails so, and an index in range never does.
InRange(p, n) == n >= 0 /\ n < Len(keyringHeap[profiles[p].keyring])

C13_EntryNotFound ==
  [][\A p \in ProfileIds, n \in EntryIndexes :
       (Live(p) /\ profiles[p].keyring # Undefined) =>
         /\ (\/ CreateIdentity(p, n)
             \/ GetIdentities(p, n)
             \/ \E i \in CallerIdentities, l \in CallerLabels : SetIdentityLabel(p, n, i, l))
              => (last'.profile = p /\ (last'.error = EntryNotFound <=> ~InRange(p, n)))
         /\ \A c \in CallIds :
              (\/ \E i \in CallerIdentities, tx \in CallerTransactions, nonce \in CallerNonces :
                    SignTransactionStart(c, p, n, i, tx, nonce)
               \/ \E i \in CallerIdentities, t \in TxIds, nonce \in CallerNonces :
                    AppendSignatureStart(c, p, n, i, t, nonce))
              => IF InRange(p, n)
                 THEN Signing(c)' /\ calls'[c].entry.index = n /\ last' = last
                 ELSE calls' = calls /\ last'.profile = p /\ last'.error = EntryNotFound
         /\ \A c \in CallIds :
              (Signing(c) /\ calls'[c].pc = "idle") => last'.error # EntryNotFound]_vars

\* a profile over the empty keyring was asked to sign with its first entry
C13_Witness ==
  /\ Live(1) /\ ~profiles[1].locked
  /\ keyringHeap[profiles[1].keyring] = EmptyKeyring
  /\ last = Threw("signTransaction", 1, EntryNotFound)

\* --------------------------------------------------------------------- C14
\* C14: when the entry's createTransactionSignature fails, signTransaction
\* and appendSignature fail with that same failure, return no
\* SignedTransaction, make no second attempt, and leave the lock state and
\* the keyring as they were.
C14_SigningFailurePropagates ==
  [][\A c \in CallIds :
       (/\ Signing(c) /\ calls'[c].pc = "idle"
        /\ calls[c].identity \notin
             Pubkeys(keyringHeap[calls[c].entry.keyring][calls[c].entry.index + 1])) =>
          /\ last' = Threw(calls[c].op, calls[c].profile, SigningFailure)
          /\ signedTxs' = signedTxs
          /\ calls'[c] = IdleCall
          /\ \A d \in CallIds \ {c} : calls'[d] = calls[d]
          /\ profiles' = profiles
          /\ keyringHeap' = keyringHeap]_vars

\* the unlocked profile was asked to co-sign with an identity its entry
\* does not hold
C14_Witness ==
  /\ last = Threw("appendSignature", 1, SigningFailure)
  /\ ~profiles[1].locked /\ profiles[1].keyring # Undefined
  /\ \A c \in CallIds : ~Signing(c)
  /\ \E t \in TxIds : signedTxs[t].exists

\* --------------------------------------------------------------------- C15
\* C15: lock() never fails, on an unlocked and on a locked profile alike:
\* it can always be called, reports no error and leaves the profile locked
\* without keyring; on a locked profile it changes nothing.
C15_LockNeverFails ==
  /\ [](\A p \in ProfileIds :
          (Live(p) /\ ~crashed) =>
            /\ ENABLED Lock(p)
            /\ profiles[p].locked => LockedProfile(profiles[p]) = profiles[p])
  /\ [][\A p \in ProfileIds :
          Lock(p) => /\ last' = last
                     /\ profiles'[p].locked /\ profiles'[p].keyring = Undefined
                     /\ profiles'[p].createdAt = profiles[p].createdAt]_vars

\* a locked profile, which refused a call, on which lock() can be called again
C15_Witness ==
  /\ Live(1) /\ profiles[1].locked /\ profiles[1].keyring = Undefined
  /\ last = Threw("getIdentities", 1, ProfileLocked)
  /\ ENABLED Lock(1)

\* --------------------------------------------------------------------- C16
\* C16: the chainId given to createTransactionSignature is that of the
\* chain of the transaction being signed, so the signatures a profile makes
\* on transactions of two different chains are made under different
\* chainIds.
MadeHere(sig) ==
  \E p \in ProfileIds : \E i \in 1..Len(keyringHeap[p]) :
    keyringHeap[p][i].secret = sig.signature.secret

C16_ChainScopedSignatures ==
  \A t, u \in TxIds :
    (/\ signedTxs[t].exists /\ signedTxs[u].exists
     /\ TransactionChain(signedTxs[t].transaction) # TransactionChain(signedTxs[u].transaction)) =>
       \A i \in 1..Len(SignaturesOf(signedTxs[t])), j \in 1..Len(SignaturesOf(signedTxs[u])) :
         (MadeHere(SignaturesOf(signedTxs[t])[i]) /\ MadeHere(SignaturesOf(signedTxs[u])[j])) =>
           SignaturesOf(signedTxs[t])[i].signature.chainId #
             SignaturesOf(signedTxs[u])[j].signature.chainId

\* --------------------------------------------------------------------- C17
\* C17: mnemonic round trip.  encode gives, for every entropy of 16, 20,
\* 24, 28 or 32 bytes, a text that the validator accepts and that decode
\* turns back into that entropy; and encode turns the entropy that decode
\* gave for a validated mnemonic back into that mnemonic.
C17_RoundTrip ==
  [][/\ (EncodeEntropy /\ Len(bip39.entropy) \in {16, 20, 24, 28, 32}) =>
          /\ bip39'.error = NoError
          /\ Validate(bip39'.mnemonic).error = NoError
     /\ (bip39.op = "encode" /\ bip39.error = NoError /\ bip39'.op = "decode of encoded") =>
          /\ bip39'.error = NoError
          /\ bip39'.mnemonic = bip39.mnemonic
          /\ bip39'.entropy = bip39.entropy
     /\ (bip39.op = "decode" /\ bip39.error = NoError /\ bip39'.op = "encode of decoded") =>
          /\ bip39'.error = NoError
          /\ bip39'.entropy = bip39.entropy
          /\ bip39'.mnemonic = bip39.mnemonic]_vars

\* the second vector of the tests, decoded from what encode gave
C17_Witness ==
  /\ bip39.op = "decode of encoded" /\ bip39.error = NoError
  /\ bip39.entropy = Repeated(127, 16)
  /\ bip39.mnemonic = Join(<<"legal", "winner", "thank", "year", "wave", "sausage",
                             "worth", "useful", "legal", "winner", "thank", "yellow">>)

\* --------------------------------------------------------------------- C18
\* C18: encode fails with InvalidLength exactly for the entropies whose
\* length is not 16, 20, 24, 28 or 32 bytes, the empty one included; for
\* an entropy of L bytes of these it gives L*3/4 words: 12, 15, 18, 21, 24.
NumberOfWords(text) == Cardinality({i \in 1..Len(text) : text[i] # Space})

C18_EncodeLengths ==
  bip39.op = "encode" =>
    /\ bip39.error \in {NoError, InvalidLength}
    /\ bip39.error = InvalidLength <=> Len(bip39.entropy) \notin {16, 20, 24, 28, 32}
    /\ bip39.error = InvalidLength => bip39.mnemonic = << >>
    /\ bip39.error = NoError =>
         /\ 4 * NumberOfWords(bip39.mnemonic) = 3 * Len(bip39.entropy)
         /\ NumberOfWords(bip39.mnemonic) \in {12, 15, 18, 21, 24}
         /\ Len(bip39.mnemonic) = 2 * NumberOfWords(bip39.mnemonic) - 1

\* the vector of 24 bytes 0x80, which gives 18 words
C18_Witness ==
  /\ bip39.op = "encode" /\ bip39.error = NoError
  /\ bip39.entropy = Repeated(128, 24)
  /\ NumberOfWords(bip39.mnemonic) = 18
  /\ bip39.mnemonic[Len(bip39.mnemonic)] = "always"

\* --------------------------------------------------------------------- C19
\* C19: the validation checks the format, then the word count, then the
\* words and the checksum, and reports the first check that fails: a text
\* with a leading, doubled or trailing space or a character outside a-z
\* fails with InvalidFormat whatever its word count and checksum; a well
\* formatted text of another count than 12, 15, 18, 21, 24 fails with
\* InvalidWordCount whatever its checksum; a well formatted text of such a
\* count, of words of the list, with a wrong checksum fails with
\* InvalidChecksum.
IllFormatted(text) ==
  \/ text[1] = Space
  \/ text[Len(text)] = Space
  \/ \E i \in 1..(Len(text) - 1) : text[i] = Space /\ text[i + 1] = Space
  \/ \E i \in 1..Len(text) : text[i] \in {"Abandon", "route66"}

AllListed(text) ==
  \A i \in 1..Len(text) : text[i] # Space => \E n \in DOMAIN Wordlist : Wordlist[n] = text[i]

WrongChecksum(text) ==
  LET e == EntropyOf(SplitOnSpaces(text))
  IN Hashed(e) /\ Encode(e).mnemonic # text

C19_ValidationOrder ==
  bip39.op = "decode" =>
    LET text == bip39.mnemonic
        count == NumberOfWords(text)
    IN /\ IllFormatted(text) <=> bip39.error = InvalidFormat
       /\ (~IllFormatted(text) /\ count \notin {12, 15, 18, 21, 24})
            <=> bip39.error = InvalidWordCount
       /\ (~IllFormatted(text) /\ count \in {12, 15, 18, 21, 24}
            /\ AllListed(text) /\ WrongChecksum(text)) => bip39.error = InvalidChecksum

\* 13 times "zoo" behind a leading space: a wrong format and a wrong count
C19_Witness ==
  /\ bip39.op = "decode" /\ bip39.error = InvalidFormat
  /\ bip39.mnemonic = <<Space>> \o Join(Repeated("zoo", 13))

\* --------------------------------------------------------------------- C20
\* C20: the InvalidWordCount error names the number of words observed, the
\* number of the space-separated words of the text, for every well
\* formatted text whose word count is not 12, 15, 18, 21 or 24.
C20_ObservedWordCount ==
  bip39.op = "decode" =>
    /\ bip39.error = InvalidWordCount =>
         bip39.count = (Len(bip39.mnemonic) + 1) \div 2
    /\ (~IllFormatted(bip39.mnemonic)
         /\ (Len(bip39.mnemonic) + 1) \div 2 \notin {12, 15, 18, 21, 24}) =>
           /\ bip39.error = InvalidWordCount
           /\ bip39.count = NumberOfWords(bip39.mnemonic)

\* 23 times "zoo": the error names 23
C20_Witness ==
  /\ bip39.op = "decode" /\ bip39.error = InvalidWordCount /\ bip39.count = 23
  /\ bip39.mnemonic = Join(Repeated("zoo", 23))

\* --------------------------------------------------------------------- C21
\* C21 as stated: decode fails with InvalidChecksum for a valid mnemonic
\* with any single one of its bits flipped, an entropy bit or a checksum bit.
C21_AsStated ==
  \A f \in BitFlips :
    (bip39.op = "decode" /\ bip39.mnemonic = f.text) => bip39.error = InvalidChecksum

\* C21: checksum sensitivity.  decode fails with InvalidChecksum for a
\* valid mnemonic with one checksum bit flipped; with one entropy bit
\* flipped it fails with InvalidChecksum unless the hash of the flipped
\* entropy begins with the same checksum bits, and then it gives the flipped
\* entropy, never the entropy of the mnemonic.
C21_BitFlip ==
  \A f \in BitFlips :
    (bip39.op = "decode" /\ bip39.mnemonic = f.text) =>
      LET head == (CHOOSE row \in Sha256Heads : row[1] = 16 /\ row[2] = f.byte)[3]
          flippedHead ==
            (CHOOSE row \in FlippedSha256Heads : row[1] = f.byte)[2][f.bit]
      IN /\ bip39.error \in {InvalidChecksum, NoError}
         /\ f.bit > 128 => bip39.error = InvalidChecksum
         /\ f.bit <= 128 =>
              /\ bip39.error = InvalidChecksum <=> flippedHead \div 16 # head \div 16
              /\ bip39.error = NoError =>
                   /\ bip39.entropy # Repeated(f.byte, 16)
                   /\ \E i \in 1..16 :
                        \A j \in 1..16 : bip39.entropy[j] = f.byte <=> j # i

\* "abandon ... about" with its first bit flipped: the hash of 80 00 .. 00
\* begins with the bits 0011 as the hash of 00 .. 00 does
C21_Witness ==
  /\ bip39.op = "decode" /\ bip39.error = NoError
  /\ bip39.entropy = <<128>> \o Repeated(0, 15)
  /\ bip39.mnemonic = <<Wordlist[1024], Space>> \o Join(Repeated("abandon", 10) \o <<"about">>)

C23_LockedIffNoKeyring ==
  \A p \in ProfileIds :
    Live(p) => (profiles[p].locked <=> profiles[p].keyring = Undefined)

\* a locked profile without keyring beside an unlocked one with its keyring
C23_Witness ==
  \E p, q \in ProfileIds :
    /\ Live(p) /\ profiles[p].locked /\ profiles[p].keyring = Undefined
    /\ Live(q) /\ ~profiles[q].locked /\ profiles[q].keyring # Undefined
    /\ Len(keyringHeap[profiles[q].keyring]) > 0

\* --------------------------------------------------------------------- C24
\* two storeIn calls that ran beside each other have both done their
\* writes and await the close of the database
BothStored(c, d) ==
  /\ c # d /\ ~crashed
  /\ At(c, "storeIn", "close") /\ At(d, "storeIn", "close")

\* C24: when two storeIn calls on the same store overlap, then once both
\* have done their writes the store holds exactly the created-at record and
\* the keyring record of one single profile, the records of one of the two
\* calls, never the created-at record of one profile beside the keyring
\* record of the other.
C24_OverlappingStoreIn ==
  \A c, d \in CallIds : BothStored(c, d) =>
    \E e \in {c, d} :
      store = RecordsOf(profiles[calls[e].profile].createdAt, calls[e].keyringText)

\* --------------------------------------------------------------------- C25
\* C25: a storeIn call on a locked profile leaves the target store
\* unchanged.  The call fails with ProfileLocked at its lock check, before
\* the store is opened or cleared: it starts no clear and no put, and every
\* record that was in the store before the call is in it after the call.
C25_LockedStoreInKeepsStore ==
  [][\A c \in CallIds, p \in ProfileIds :
       (StoreInStart(c, p) /\ profiles[p].locked) =>
         /\ last' = Threw("storeIn", p, ProfileLocked)
         /\ store' = store
         /\ calls' = calls]_vars

\* a storeIn of the locked first profile has failed while nothing else
\* worked on the store, which holds the whole earlier profile and the
\* unrelated key as before
C25_Witness ==
  /\ last = Threw("storeIn", 1, ProfileLocked)
  /\ profiles[1].locked
  /\ \A c \in CallIds : ~InFlight(c)
  /\ store = InitialStores_Whole

\* --------------------------------------------------------------------- C26
\* the failure that the lock check and the entry lookup give a signing call
\* of profile p with entry index n, the lock check first
EarlyFailure(p, n) ==
  IF profiles[p].keyring = Undefined THEN ProfileLocked
  ELSE IF ~InRange(p, n) THEN EntryNotFound
  ELSE NoError

\* what a signing call of operation op leaves when it fails early: the
\* failure, no bytes asked of the codec, no signature asked of any entry
FailsEarly(op, p, n) ==
  /\ last' = Threw(op, p, EarlyFailure(p, n))
  /\ \A d \in CallIds : calls'[d].bytes = calls[d].bytes
  /\ \A d \in CallIds : Signing(d)' <=> Signing(d)
  /\ keyringHeap' = keyringHeap /\ signedTxs' = signedTxs

\* C26: a signTransaction or appendSignature call that fails with
\* ProfileLocked or EntryNotFound has no effect on its collaborators.  The
\* lock check comes first (a locked profile gives ProfileLocked whatever the
\* entry index), then the entry lookup, then codec.bytesToSign, then the
\* entry's createTransactionSignature: on either failure no bytes were
\* computed and no entry was asked for a signature, and a call that passes
\* both checks has its bytes from the codec when it asks its entry.
C26_EarlyFailureInvokesNothing ==
  [][\A c \in CallIds, p \in ProfileIds, n \in EntryIndexes :
       /\ \A i \in CallerIdentities, tx \in CallerTransactions, nonce \in CallerNonces :
            SignTransactionStart(c, p, n, i, tx, nonce) =>
              IF EarlyFailure(p, n) # NoError
              THEN FailsEarly("signTransaction", p, n)
              ELSE Signing(c)' /\ calls'[c].bytes = BytesToSign(tx, nonce)
       /\ \A i \in CallerIdentities, t \in TxIds, nonce \in CallerNonces :
            AppendSignatureStart(c, p, n, i, t, nonce) =>
              IF EarlyFailure(p, n) # NoError
              THEN FailsEarly("appendSignature", p, n)
              ELSE /\ Signing(c)'
                   /\ calls'[c].bytes = BytesToSign(signedTxs[t].transaction, nonce)]_vars

\* an appendSignature on the locked first profile failed: no call is in
\* flight or holds bytes, and the transaction signed before the lock is the
\* only one there is
C26_Witness ==
  /\ last = Threw("appendSignature", 1, ProfileLocked)
  /\ profiles[1].locked
  /\ \A c \in CallIds : calls[c] = IdleCall
  /\ signedTxs[1].exists /\ \A t \in TxIds : t # 1 => ~signedTxs[t].exists

\* --------------------------------------------------------------------- C27
\* C27: createIdentity(n) and setIdentityLabel(n, identity, label) act only
\* on the entry at index n.  The identities and labels that getIdentities(m)
\* reports for every m other than n, the number and the order of the
\* keyring's entries, the creation time and the lock state are what they
\* were before the call, as is every other profile and its keyring.
C27_OnlyEntryN ==
  [][\A p \in ProfileIds, n \in EntryIndexes :
       (\/ CreateIdentity(p, n)
        \/ \E i \in CallerIdentities, l \in CallerLabels : SetIdentityLabel(p, n, i, l)) =>
         /\ profiles' = profiles
         /\ \A k \in DOMAIN keyringHeap :
              /\ Len(keyringHeap'[k]) = Len(keyringHeap[k])
              /\ \A m \in 0..(Len(keyringHeap[k]) - 1) :
                   /\ EntryAt(keyringHeap'[k], m).secret = EntryAt(keyringHeap[k], m).secret
                   /\ (k # profiles[p].keyring \/ m # n) =>
                        EntryAt(keyringHeap'[k], m).identities
                          = EntryAt(keyringHeap[k], m).identities]_vars

\* over a keyring of two entries that each have an identity, the identity
\* of the first entry was given a label; the one of the second entry is as
\* it was created
C27_Witness ==
  /\ last = Gave("setIdentityLabel", 1, 0)
  /\ ~profiles[1].locked /\ Len(keyringHeap[profiles[1].keyring]) = 2
  /\ LET kr == keyringHeap[profiles[1].keyring] IN
       /\ Len(EntryAt(kr, 0).identities) = 1 /\ Len(EntryAt(kr, 1).identities) = 1
       /\ EntryAt(kr, 0).identities[1].label = 1
       /\ EntryAt(kr, 1).identities = WithNewIdentity(NewEntry(2)).identities

\* --------------------------------------------------------------------- C28
\* a step of the storeIn call c
StoreInStep(c) ==
  \/ \E p \in ProfileIds : StoreInStart(c, p)
  \/ ClearScan(c) \/ ClearDel(c) \/ PutCreatedAt(c) \/ PutKeyring(c) \/ StoreInClose(c)

\* the call c is a storeIn of a profile whose storeIn before it completed,
\* with no operation that reports a result completed since (no identity
\* operation among them)
FollowsStoreIn(c) == last = Gave("storeIn", calls[c].profile, 0)

\* C28: storeIn leaves the profile itself unchanged (creation time, keyring
\* content, lock state) and is idempotent on the store.  Of two consecutive
\* completed storeIn calls of the same profile on the same store, with no
\* identity operation in between, the second starts on the two records of
\* the profile that the first has left, and when it has done its writes
\* the store holds these same two records.
C28_StoreInIdempotent ==
  /\ [][\A c \in CallIds : StoreInStep(c) =>
          (profiles' = profiles /\ keyringHeap' = keyringHeap)]_vars
  /\ [][\A c \in CallIds, p \in ProfileIds :
          (StoreInStart(c, p) /\ last = Gave("storeIn", p, 0) /\ StoreInFlight(c)') =>
            store = RecordsOf(profiles[p].createdAt,
                              Serialize(keyringHeap[profiles[p].keyring]))]_vars
  /\ [](\A c \in CallIds :
          (~crashed /\ At(c, "storeIn", "close") /\ FollowsStoreIn(c)) =>
            /\ store = RecordsOf(profiles[calls[c].profile].createdAt, calls[c].keyringText)
            /\ calls[c].keyringText = Serialize(keyringHeap[calls[c].profile]))

\* the second of two consecutive storeIn calls of the first profile, which
\* has an identity, has done its writes over the records of the first call
C28_Witness ==
  \E c \in CallIds :
    /\ At(c, "storeIn", "close") /\ calls[c].profile = 1 /\ FollowsStoreIn(c)
    /\ ~crashed /\ ~profiles[1].locked
    /\ Len(keyringHeap[1]) = 1 /\ Len(keyringHeap[1][1].identities) = 1
    /\ store = RecordsOf(InitialCreatedAt, Serialize(keyringHeap[1]))

\* --------------------------------------------------------------------- C29
\* C29: encodeFullSig encodes a FullSignature whose public key is of
\* algorithm ED25519 as the message with sequence equal to the signature's
\* nonce and with the public key data and the signature each under the
\* ed25519 variant; for every other algorithm encodePubKey and
\* encodeSignature fail with the "unsupported algorithm" error, which names
\* the algorithm, and encodeFullSig fails with it and gives no encoding.
C29_EncodeFullSig ==
  \A i \in 1..Len(encoded) :
    LET arg == encoded[i].argument
        res == encoded[i].result
        algo == IF encoded[i].op = "encodeFullSig" THEN arg.publicKey.algo ELSE arg.algo
    IN IF algo # ED25519
       THEN res.error = UnsupportedAlgorithm /\ res.algo = algo /\ res.value = NoEncoding
       ELSE /\ res.error = NoError
            /\ encoded[i].op = "encodeFullSig" =>
                 /\ res.value.sequence = arg.nonce
                 /\ res.value.pubKey = [ed25519 |-> arg.publicKey.data]
                 /\ res.value.signature = [ed25519 |-> arg.signature]
                 /\ DOMAIN res.value = {"sequence", "pubKey", "signature"}
            /\ encoded[i].op = "encodePubKey" => res.value = [ed25519 |-> arg.data]
            /\ encoded[i].op = "encodeSignature" => res.value = [ed25519 |-> arg.sigs]

\* a signature of an ED25519 key with nonce 2 was encoded, and the encoding
\* of a signature of a key of another algorithm failed
C29_Witness ==
  /\ Len(encoded) = 2
  /\ encoded[1].op = "encodeFullSig" /\ encoded[1].argument.publicKey.algo = ED25519
  /\ encoded[1].argument.nonce = 2
  /\ encoded[1].result.value =
       [sequence |-> 2, pubKey |-> [ed25519 |-> 1], signature |-> [ed25519 |-> 8]]
  /\ encoded[2].op = "encodeFullSig" /\ encoded[2].argument.publicKey.algo = "secp256k1"
  /\ encoded[2].result = Unsupported("secp256k1")

====
